---------------------------- MODULE Spec2Model ----------------------------
(***************************************************************************)
(* Compra-Inteligente: the gesture / voice action pipeline.                *)
(*                                                                         *)
(*   store.js     the reactive store (mode, cart) and the action lock      *)
(*   voice.js     processVoiceCommand and the default command handlers     *)
(*   gestures.js  processFrame: candidate, dwell, swipe, execute*Action    *)
(*   ui.js        handleCheckoutSuccess (the deferred purchase clean-up)   *)
(*                                                                         *)
(* Time is Date.now() in milliseconds.  Wrist coordinates are MediaPipe's  *)
(* normalised [0,1] values in thousandths, so 0.15 is 150.                 *)
(***************************************************************************)
EXTENDS Integers, Sequences, FiniteSets, TLC

VARIABLES
    now,          \* Date.now()
    actionLock,   \* store.js actionLock: isLocked, lockedBy, lockTime
    state,        \* store.js state: currentMode, previousMode, selectedProduct, cart, cartActiveIndex
    activeIndex,  \* horizontalCoverflow.js state.activeIndex
    products,     \* horizontalCoverflow.js state.products: the list the coverflow shows
    gridView,     \* ui.js userSelectedViewType === 'grid'
    isRunning,    \* gestures.js isRunning
    hold,         \* gestures.js pendingGesture, pendingGestureStart, lastPendingProgress, gestureJustSucceeded
    cooldown,     \* gestures.js lastConfirmTime ... lastFistTime
    swipe,        \* gestures.js swipeStartX ... zeroVelocityLastX
    timers,       \* pending setTimeout callbacks of handleCheckoutSuccess
    ev,           \* observation: the last operation and what it did
    grants,       \* observation: acquisitions granted and neither released nor timed out
    run,          \* observation: the current uninterrupted presentation of one pose
    demo          \* store.js demoStarted, gestures.js gestureRecognizer, the onStartDemo calls awaiting initMultimodalServices

vars == <<now, actionLock, state, activeIndex, products, gridView, isRunning, hold,
          cooldown, swipe, timers, ev, grants, run, demo>>

----------------------------------------------------------------------------
(* Program constants *)

LOCK_TIMEOUT == 300
GESTURE_HOLD_DURATION == 2000
REARM_DELAY == 1000
CONFIRM_COOLDOWN == 1000
STOP_COOLDOWN == 1000
VICTORY_COOLDOWN == 1500
SWIPE_COOLDOWN == 500
ITALIAN_COOLDOWN == 1500
REMOVE_COOLDOWN == 1000
SWIPE_BASE_THRESHOLD == 150
SWIPE_REVERSE_THRESHOLD == 350
SWIPE_TIME_LIMIT == 2000
STABLE_VELOCITY == 5
STABLE_FRAMES == 10
CHECKOUT_DELAY == 100

(* Bounds of the model *)

NumProducts == 2      \* catalogue size
MaxQty == 2           \* largest cartQty explored
MaxLockTicks == 6     \* clock ticks explored by the lock specification
MaxVoiceTicks == 3    \* clock ticks explored by the voice specification
MaxDwellTicks == 6    \* clock ticks explored by the dwell specification
MaxExecTicks == 3     \* clock ticks explored by the execute-action specification
MaxFiredKinds == 2    \* kinds of execute action fired in one exploration
MaxStopTicks == 2     \* clock ticks explored by the start/stop specification
MaxShopKinds == 1     \* kinds of execute action fired in one shopping exploration
MaxShopTimers == 1    \* purchase clean-ups run in one shopping exploration
MaxCatalogTicks == 2  \* clock ticks explored by the catalog specification
MaxHandTicks == 1     \* clock ticks explored by the whole-hand specification
MaxSwipeTicks == 5    \* clock ticks explored by the swipe specification

----------------------------------------------------------------------------
(* Values *)

Null == "null"
NoTime == -1
NoProduct == 0
NoCoord == -1

BROWSE == "BROWSE"
DETAILS == "DETAILS"
CART == "CART"
CHECKOUT == "CHECKOUT"
MODES == {BROWSE, DETAILS, CART, CHECKOUT}

Sources == {"voice", "gesture"}

Products == [i \in 1..NumProducts |-> i]

\* Date.now() when the page starts: far beyond every cooldown, so that the
\* zero-initialised timestamps of gestures.js block nothing.
Epoch == GESTURE_HOLD_DURATION + SWIPE_TIME_LIMIT

----------------------------------------------------------------------------
(* store.js: the action lock *)

FreeLock == [isLocked |-> FALSE, lockedBy |-> Null, lockTime |-> NoTime]

HeldLock(source, t) == [isLocked |-> TRUE, lockedBy |-> source, lockTime |-> t]

\* acquireActionLock without the deny branch: every call is granted.
acquireActionLock_NoDeny(l, source, t) ==
    [ok |-> TRUE, lock |-> HeldLock(source, t)]

\* acquireActionLock that never expires a held lock.
acquireActionLock_NoExpiry(l, source, t) ==
    IF l.isLocked
    THEN [ok |-> FALSE, lock |-> l]
    ELSE [ok |-> TRUE, lock |-> HeldLock(source, t)]

\* acquireActionLock(source) at time t: the returned boolean and the lock after.
acquireActionLock(l, source, t) ==
    IF l.isLocked /\ ~(t - l.lockTime > LOCK_TIMEOUT)
    THEN [ok |-> FALSE, lock |-> l]
    ELSE [ok |-> TRUE, lock |-> HeldLock(source, t)]

\* releaseActionLock that does not check the holder.
releaseActionLock_Any(l, source) == FreeLock

\* releaseActionLock(source): the lock after.
releaseActionLock(l, source) ==
    IF l.lockedBy = source THEN FreeLock ELSE l

\* isActionLocked() at time t: the returned boolean and the lock after.
isActionLocked(l, t) ==
    IF l.isLocked /\ t - l.lockTime > LOCK_TIMEOUT
    THEN [locked |-> FALSE, lock |-> FreeLock]
    ELSE [locked |-> l.isLocked, lock |-> l]

\* executeWithLock whose release is not in a finally block.
executeWithLock_NoFinally(l, source, t, throws) ==
    LET a == acquireActionLock(l, source, t)
    IN  IF ~a.ok
        THEN [acquired |-> FALSE, ran |-> FALSE, threw |-> FALSE, ok |-> FALSE,
              lock |-> a.lock]
        ELSE IF throws
        THEN [acquired |-> TRUE, ran |-> TRUE, threw |-> TRUE, ok |-> FALSE,
              lock |-> a.lock]
        ELSE [acquired |-> TRUE, ran |-> TRUE, threw |-> FALSE, ok |-> TRUE,
              lock |-> releaseActionLock(a.lock, source)]

\* executeWithLock(source, action) at time t, for an action that throws or not:
\* whether the lock was acquired, whether the action ran, whether its exception
\* propagated, the returned boolean and the lock after.
executeWithLock(l, source, t, throws) ==
    LET a == acquireActionLock(l, source, t)
    IN  IF ~a.ok
        THEN [acquired |-> FALSE, ran |-> FALSE, threw |-> FALSE, ok |-> FALSE,
              lock |-> a.lock]
        ELSE [acquired |-> TRUE, ran |-> TRUE, threw |-> throws, ok |-> ~throws,
              lock |-> releaseActionLock(a.lock, source)]

----------------------------------------------------------------------------
(* store.js: the store *)

InitialState ==
    [currentMode |-> BROWSE, previousMode |-> Null, selectedProduct |-> NoProduct,
     cart |-> <<>>, cartActiveIndex |-> 0]

CartIds(cart) == {cart[i].id : i \in 1..Len(cart)}

InCart(cart, p) == p \in CartIds(cart)

QtyOf(cart, p) ==
    IF InCart(cart, p)
    THEN (CHOOSE it \in {cart[i] : i \in 1..Len(cart)} : it.id = p).cartQty
    ELSE 0

\* setMode(mode, {product}); product is NoProduct when the payload has none.
setMode(st, mode, product) ==
    IF mode \notin MODES THEN st
    ELSE [st EXCEPT !.currentMode = mode,
                    !.previousMode = st.currentMode,
                    !.selectedProduct =
                        IF mode = DETAILS /\ product # NoProduct THEN product ELSE @]

\* addToCart that appends a new entry even when the product is in the cart.
addToCart_Append(st, p) ==
    [st EXCEPT !.cart = Append(st.cart, [id |-> p, cartQty |-> 1])]

\* addToCart that looks for the product in the first entry of the cart only.
addToCart_FirstEntry(st, p) ==
    IF st.cart # <<>> /\ st.cart[1].id = p
    THEN [st EXCEPT !.cart[1].cartQty = @ + 1]
    ELSE [st EXCEPT !.cart = Append(st.cart, [id |-> p, cartQty |-> 1])]

\* addToCart(product)
addToCart(st, p) ==
    IF InCart(st.cart, p)
    THEN [st EXCEPT !.cart =
            [i \in 1..Len(st.cart) |->
                IF st.cart[i].id = p
                THEN [st.cart[i] EXCEPT !.cartQty = @ + 1]
                ELSE st.cart[i]]]
    ELSE [st EXCEPT !.cart = Append(st.cart, [id |-> p, cartQty |-> 1])]

Max(a, b) == IF a >= b THEN a ELSE b
Min(a, b) == IF a <= b THEN a ELSE b
Abs(a) == IF a >= 0 THEN a ELSE -a

AdjustedIndex(idx, newCart) ==
    IF idx >= Len(newCart) THEN Max(0, Len(newCart) - 1) ELSE idx

\* removeFromCart(productId)
removeFromCart(st, p) ==
    LET newCart == SelectSeq(st.cart, LAMBDA it : it.id # p)
    IN  [st EXCEPT !.cart = newCart,
                   !.cartActiveIndex = AdjustedIndex(st.cartActiveIndex, newCart)]

\* decreaseCartItem that decrements the quantity even when it is 1.
decreaseCartItem_ToZero(st, p) ==
    IF ~InCart(st.cart, p) THEN st
    ELSE [st EXCEPT !.cart =
            [i \in 1..Len(st.cart) |->
                IF st.cart[i].id = p
                THEN [st.cart[i] EXCEPT !.cartQty = @ - 1]
                ELSE st.cart[i]]]

\* decreaseCartItem(product)
decreaseCartItem(st, p) ==
    IF ~InCart(st.cart, p) THEN st
    ELSE IF QtyOf(st.cart, p) > 1
    THEN [st EXCEPT !.cart =
            [i \in 1..Len(st.cart) |->
                IF st.cart[i].id = p
                THEN [st.cart[i] EXCEPT !.cartQty = @ - 1]
                ELSE st.cart[i]]]
    ELSE LET newCart == SelectSeq(st.cart, LAMBDA it : it.id # p)
         IN  [st EXCEPT !.cart = newCart,
                        !.cartActiveIndex = AdjustedIndex(st.cartActiveIndex, newCart)]

\* setCartActiveIndex(index)
setCartActiveIndex(st, index) ==
    LET i0 == IF index < 0 THEN 0 ELSE index
        i1 == IF Len(st.cart) > 0 /\ i0 >= Len(st.cart) THEN Len(st.cart) - 1 ELSE i0
    IN  [st EXCEPT !.cartActiveIndex = i1]

\* state.cart[state.cartActiveIndex], NoProduct when undefined
ActiveCartItem(st) ==
    IF st.cartActiveIndex >= 0 /\ st.cartActiveIndex < Len(st.cart)
    THEN st.cart[st.cartActiveIndex + 1].id
    ELSE NoProduct

CartBounded(st) == \A i \in 1..Len(st.cart) : st.cart[i].cartQty <= MaxQty

----------------------------------------------------------------------------
(* horizontalCoverflow.js *)

\* getProductAtOffset(0) / getActiveProduct()
getActiveProduct(ai) ==
    IF ai < 0 \/ ai >= Len(products) THEN NoProduct ELSE products[ai + 1]

\* next() that stops one position past the last product.
coverflowNext_PastEnd(ai) ==
    IF Len(products) = 0 THEN [ok |-> FALSE, activeIndex |-> ai]
    ELSE IF ai < Len(products) THEN [ok |-> TRUE, activeIndex |-> ai + 1]
    ELSE [ok |-> FALSE, activeIndex |-> ai]

\* next(): the returned boolean and the index after
coverflowNext(ai) ==
    IF Len(products) = 0 THEN [ok |-> FALSE, activeIndex |-> ai]
    ELSE IF ai < Len(products) - 1 THEN [ok |-> TRUE, activeIndex |-> ai + 1]
    ELSE [ok |-> FALSE, activeIndex |-> ai]

\* prev(): the returned boolean and the index after
coverflowPrev(ai) ==
    IF Len(products) = 0 THEN [ok |-> FALSE, activeIndex |-> ai]
    ELSE IF ai > 0 THEN [ok |-> TRUE, activeIndex |-> ai - 1]
    ELSE [ok |-> FALSE, activeIndex |-> ai]

\* store.js getFilteredProducts(): the catalog products that pass the active
\* filters, in catalog order; keep is the set of identifiers that pass.
getFilteredProducts(keep) == SelectSeq(Products, LAMBDA p : p \in keep)

\* findIndex(p => p.id === id), zero-based, -1 when absent
findIndex(ps, id) ==
    IF \E i \in 1..Len(ps) : ps[i] = id
    THEN (CHOOSE i \in 1..Len(ps) : ps[i] = id /\ \A j \in 1..(i - 1) : ps[j] # id) - 1
    ELSE -1

\* updateHorizontalCoverflow that keeps the index instead of the product.
updateHorizontalCoverflow_KeepIndex(ai, newProducts) ==
    IF ai < Len(newProducts) THEN ai ELSE 0

\* updateHorizontalCoverflow(newProducts): the index after; the focus stays on
\* the product that had it when the new list still holds it, else goes to 0.
updateHorizontalCoverflow(ai, newProducts) ==
    IF Len(products) > 0 /\ ai < Len(products) /\ findIndex(newProducts, products[ai + 1]) # -1
    THEN findIndex(newProducts, products[ai + 1])
    ELSE 0

----------------------------------------------------------------------------
(* ui.js *)

\* handleCheckoutSuccess(): setTimeout(..., 100); the callback is TimerBody.
handleCheckoutSuccess(tms, t, origin) ==
    tms \cup {[due |-> t + CHECKOUT_DELAY, origin |-> origin]}

\* The setTimeout callback of handleCheckoutSuccess without its setMode.
TimerBody_NoMode(st) == [st EXCEPT !.cart = <<>>]

\* The setTimeout callback of handleCheckoutSuccess:
\* setState({ cart: [] }); setMode(MODES.BROWSE)
TimerBody(st) == setMode([st EXCEPT !.cart = <<>>], BROWSE, NoProduct)

----------------------------------------------------------------------------
(* voice.js *)

\* The command handlers that touch the modelled state, by handler name;
\* "ayuda" stands for the handlers that only log or filter, "none" for a
\* transcript no handler matches.
CommandNames ==
    {"ver carrito", "siguiente", "anterior", "ver detalles", "ver productos",
     "atras", "ver producto", "agregar al carrito", "quitar del carrito",
     "finalizar compra", "cancelar", "aceptar", "ayuda", "none"}

Cmd(name, p) == [name |-> name, product |-> p]

\* What a handler's execute does: the store state, the coverflow index and
\* whether handleCheckoutSuccess was called.
Effect(st, ai, fin) == [state |-> st, activeIndex |-> ai, finalize |-> fin]

\* handler.execute(transcript) of registerDefaultCommands
voiceExecute(cmd, st, ai, gv) ==
    LET mode == st.currentMode
        item == ActiveCartItem(st)
        same == Effect(st, ai, FALSE)
    IN  CASE cmd.name = "ver carrito" -> Effect(setMode(st, CART, NoProduct), ai, FALSE)
          [] cmd.name = "siguiente" ->
                IF mode = BROWSE /\ ~gv
                THEN Effect(st, coverflowNext(ai).activeIndex, FALSE)
                ELSE IF mode = CART /\ Len(st.cart) > 0
                THEN IF st.cartActiveIndex + 1 < Len(st.cart)
                     THEN Effect(setCartActiveIndex(st, st.cartActiveIndex + 1), ai, FALSE)
                     ELSE same
                ELSE same
          [] cmd.name = "anterior" ->
                IF mode = BROWSE /\ ~gv
                THEN Effect(st, coverflowPrev(ai).activeIndex, FALSE)
                ELSE IF mode = CART /\ Len(st.cart) > 0
                THEN IF st.cartActiveIndex - 1 >= 0
                     THEN Effect(setCartActiveIndex(st, st.cartActiveIndex - 1), ai, FALSE)
                     ELSE same
                ELSE same
          [] cmd.name = "ver detalles" ->
                IF mode = BROWSE /\ ~gv
                THEN IF getActiveProduct(ai) # NoProduct
                     THEN Effect(setMode(st, DETAILS, getActiveProduct(ai)), ai, FALSE)
                     ELSE same
                ELSE IF mode = CART /\ Len(st.cart) > 0
                THEN IF item # NoProduct
                     THEN Effect(setMode(st, DETAILS, item), ai, FALSE)
                     ELSE same
                ELSE same
          [] cmd.name = "ver productos" -> Effect(setMode(st, BROWSE, NoProduct), ai, FALSE)
          [] cmd.name = "atras" ->
                IF mode = CART THEN Effect(setMode(st, BROWSE, NoProduct), ai, FALSE)
                ELSE IF mode = DETAILS
                THEN IF st.previousMode = CART
                     THEN Effect(setMode(st, CART, NoProduct), ai, FALSE)
                     ELSE Effect(setMode(st, BROWSE, NoProduct), ai, FALSE)
                ELSE IF mode = CHECKOUT
                THEN Effect(setMode(st, CART, NoProduct), ai, FALSE)
                ELSE same
          [] cmd.name = "ver producto" ->
                IF cmd.product # NoProduct
                THEN Effect(setMode(st, DETAILS, cmd.product), ai, FALSE)
                ELSE same
          [] cmd.name = "agregar al carrito" ->
                IF mode = DETAILS /\ st.selectedProduct # NoProduct
                THEN Effect(addToCart(st, st.selectedProduct), ai, FALSE)
                ELSE IF mode = BROWSE /\ ~gv
                THEN IF getActiveProduct(ai) # NoProduct
                     THEN Effect(addToCart(st, getActiveProduct(ai)), ai, FALSE)
                     ELSE same
                ELSE same
          [] cmd.name = "quitar del carrito" ->
                IF mode = CART /\ Len(st.cart) > 0
                THEN IF item # NoProduct
                     THEN IF QtyOf(st.cart, item) > 1
                          THEN Effect(decreaseCartItem(st, item), ai, FALSE)
                          ELSE Effect(removeFromCart(st, item), ai, FALSE)
                     ELSE same
                ELSE same
          [] cmd.name = "finalizar compra" ->
                IF Len(st.cart) = 0 THEN same
                ELSE IF mode = CART THEN Effect(setMode(st, CHECKOUT, NoProduct), ai, FALSE)
                ELSE IF mode = CHECKOUT THEN Effect(st, ai, TRUE)
                ELSE Effect(setMode(st, CART, NoProduct), ai, FALSE)
          [] cmd.name = "cancelar" ->
                IF mode = CHECKOUT
                THEN Effect(setMode(st, CART, NoProduct), ai, FALSE)
                ELSE same
          [] cmd.name = "aceptar" ->
                IF mode = CHECKOUT THEN Effect(st, ai, TRUE) ELSE same
          [] OTHER -> same

\* The outcome of processVoiceCommand: the lock after, whether the lock was
\* acquired, whether the handler ran, whether its exception propagated, and
\* the handler's effect.
VoiceOutcome(l, acquired, ran, threw, eff) ==
    [lock |-> l, acquired |-> acquired, ran |-> ran, threw |-> threw, effect |-> eff]

\* processVoiceCommand with the release after the handler instead of in finally.
processVoiceCommand_NoFinally(l, t, cmd, throws, st, ai, gv) ==
    LET a == acquireActionLock(l, "voice", t)
        same == Effect(st, ai, FALSE)
    IN  IF cmd.name = "none" THEN VoiceOutcome(l, FALSE, FALSE, FALSE, same)
        ELSE IF ~a.ok THEN VoiceOutcome(a.lock, FALSE, FALSE, FALSE, same)
        ELSE IF throws THEN VoiceOutcome(a.lock, TRUE, TRUE, TRUE, same)
        ELSE VoiceOutcome(releaseActionLock(a.lock, "voice"), TRUE, TRUE, FALSE,
                          voiceExecute(cmd, st, ai, gv))

\* processVoiceCommand that runs the handler whether or not the lock was acquired.
processVoiceCommand_NoGuard(l, t, cmd, throws, st, ai, gv) ==
    LET a == acquireActionLock(l, "voice", t)
        same == Effect(st, ai, FALSE)
    IN  IF cmd.name = "none" THEN VoiceOutcome(l, FALSE, FALSE, FALSE, same)
        ELSE VoiceOutcome(releaseActionLock(a.lock, "voice"), a.ok, TRUE, throws,
                          IF throws THEN same ELSE voiceExecute(cmd, st, ai, gv))

\* processVoiceCommand(transcript) at time t; cmd is the first matching handler
\* and throws says whether its execute throws (before it mutates anything).
processVoiceCommand(l, t, cmd, throws, st, ai, gv) ==
    LET a == acquireActionLock(l, "voice", t)
        same == Effect(st, ai, FALSE)
    IN  IF cmd.name = "none" THEN VoiceOutcome(l, FALSE, FALSE, FALSE, same)
        ELSE IF ~a.ok THEN VoiceOutcome(a.lock, FALSE, FALSE, FALSE, same)
        ELSE VoiceOutcome(releaseActionLock(a.lock, "voice"), TRUE, TRUE, throws,
                          IF throws THEN same ELSE voiceExecute(cmd, st, ai, gv))

----------------------------------------------------------------------------
(* gestures.js: the manual checks on the hand landmarks *)

\* A landmark: x grows to the right and y downwards, in units of HandUnit
\* thousandths of the frame.
Point(x, y) == [x |-> x, y |-> y]

\* The landmarks the manual checks read
Landmarks(wrist, indexMcp, middleMcp, thumbTip, indexTip, middleTip, ringTip, pinkyTip) ==
    [WRIST |-> wrist, INDEX_MCP |-> indexMcp, MIDDLE_MCP |-> middleMcp,
     THUMB_TIP |-> thumbTip, INDEX_TIP |-> indexTip, MIDDLE_TIP |-> middleTip,
     RING_TIP |-> ringTip, PINKY_TIP |-> pinkyTip]

\* distance2D(p1, p2) squared; the comparisons of distances below are made on
\* the squares, which orders them alike.
Dist2(p, q) == (p.x - q.x) * (p.x - q.x) + (p.y - q.y) * (p.y - q.y)

Tips(lm) == {lm.THUMB_TIP, lm.INDEX_TIP, lm.MIDDLE_TIP, lm.RING_TIP, lm.PINKY_TIP}

\* Five times the centroid of the fingertips
Centroid5(lm) ==
    Point(lm.THUMB_TIP.x + lm.INDEX_TIP.x + lm.MIDDLE_TIP.x + lm.RING_TIP.x + lm.PINKY_TIP.x,
          lm.THUMB_TIP.y + lm.INDEX_TIP.y + lm.MIDDLE_TIP.y + lm.RING_TIP.y + lm.PINKY_TIP.y)

Times5(p) == Point(5 * p.x, 5 * p.y)

\* handSize squared
HandSize2(lm) == Dist2(lm.WRIST, lm.MIDDLE_MCP)

\* horizontalSkew > handSize * 0.8
TooSkewed(lm) ==
    25 * (Centroid5(lm).x - 5 * lm.WRIST.x) * (Centroid5(lm).x - 5 * lm.WRIST.x)
        > 16 * 25 * HandSize2(lm)

\* distance2D(tip, centroid) > handSize * 0.25
TooSpread(lm, tip) == 16 * Dist2(Times5(tip), Centroid5(lm)) > 25 * HandSize2(lm)

\* distCentroidToWrist < handSize * 1.5
TooShort(lm) == 4 * Dist2(Centroid5(lm), Times5(lm.WRIST)) < 9 * 25 * HandSize2(lm)

\* detectItalianGesture without the spread check.
detectItalianGesture_NoSpread(lm) ==
    IF lm.WRIST.y < lm.INDEX_TIP.y \/ lm.WRIST.y < lm.MIDDLE_TIP.y
          \/ lm.WRIST.y < lm.PINKY_TIP.y
    THEN FALSE
    ELSE IF lm.MIDDLE_MCP.y < lm.MIDDLE_TIP.y THEN FALSE
    ELSE IF TooSkewed(lm) THEN FALSE
    ELSE IF TooShort(lm) THEN FALSE
    ELSE TRUE

\* detectItalianGesture(landmarks)
detectItalianGesture(lm) ==
    IF lm.WRIST.y < lm.INDEX_TIP.y \/ lm.WRIST.y < lm.MIDDLE_TIP.y
          \/ lm.WRIST.y < lm.PINKY_TIP.y
    THEN FALSE
    ELSE IF lm.MIDDLE_MCP.y < lm.MIDDLE_TIP.y THEN FALSE
    ELSE IF TooSkewed(lm) THEN FALSE
    ELSE IF \E tip \in Tips(lm) : TooSpread(lm, tip) THEN FALSE
    ELSE IF TooShort(lm) THEN FALSE
    ELSE TRUE

\* isPointingPose(landmarks)
isPointingPose(lm) ==
    LET dIndex2 == Dist2(lm.INDEX_TIP, lm.WRIST)
        closed(tip) == ~(25 * Dist2(tip, lm.WRIST) > 16 * dIndex2)
    IN  IF ~closed(lm.MIDDLE_TIP) THEN FALSE
        ELSE IF ~closed(lm.RING_TIP) THEN FALSE
        ELSE IF ~closed(lm.PINKY_TIP) THEN FALSE
        ELSE IF 4 * dIndex2 < 9 * Dist2(lm.INDEX_MCP, lm.WRIST) THEN FALSE
        ELSE TRUE

\* A hand with every landmark on one point: what the observation holds when
\* no landmarks were looked at.
NoHand ==
    Landmarks(Point(0, 0), Point(0, 0), Point(0, 0), Point(0, 0), Point(0, 0),
              Point(0, 0), Point(0, 0), Point(0, 0))

----------------------------------------------------------------------------
(* gestures.js: swipe detection *)

InitialSwipe ==
    [swipeStartX |-> NoCoord, swipeStartY |-> NoCoord, swipeStartTime |-> 0,
     lastSwipeDirection |-> Null, stableFrameCount |-> 0, zeroVelocityLastX |-> NoCoord]

Anchored(sw, wx, wy, t) ==
    [sw EXCEPT !.swipeStartX = wx, !.swipeStartY = wy, !.swipeStartTime = t]

Unanchored(sw) == [sw EXCEPT !.swipeStartX = NoCoord, !.swipeStartY = NoCoord]

\* The stability step whose count of still frames survives a moving frame.
StabilityStep_NoRestart(sw, wx, wy, t) ==
    IF sw.lastSwipeDirection # Null
    THEN LET count == sw.stableFrameCount + 1
         IN  IF count > STABLE_FRAMES
             THEN Anchored([sw EXCEPT !.zeroVelocityLastX = wx,
                                      !.lastSwipeDirection = Null,
                                      !.stableFrameCount = 0], wx, wy, t)
             ELSE [sw EXCEPT !.zeroVelocityLastX = wx, !.stableFrameCount = count]
    ELSE [sw EXCEPT !.stableFrameCount = 0, !.zeroVelocityLastX = wx]

\* detectSwipe, "LOGICA DE ESTABILIDAD": the zero-velocity unlock of hysteresis
StabilityStep(sw, wx, wy, t) ==
    IF sw.lastSwipeDirection # Null
    THEN LET last == IF sw.zeroVelocityLastX = NoCoord THEN wx ELSE sw.zeroVelocityLastX
             velocity == Abs(wx - last)
             count == IF velocity < STABLE_VELOCITY THEN sw.stableFrameCount + 1 ELSE 0
         IN  IF count > STABLE_FRAMES
             THEN Anchored([sw EXCEPT !.zeroVelocityLastX = wx,
                                      !.lastSwipeDirection = Null,
                                      !.stableFrameCount = 0], wx, wy, t)
             ELSE [sw EXCEPT !.zeroVelocityLastX = wx, !.stableFrameCount = count]
    ELSE [sw EXCEPT !.stableFrameCount = 0, !.zeroVelocityLastX = wx]

\* The dynamic threshold of detectSwipe that always asks for the reverse distance.
SwipeThreshold_Reverse(lastDir, candidateDir) == SWIPE_REVERSE_THRESHOLD

\* The dynamic threshold of detectSwipe without hysteresis.
SwipeThreshold_Base(lastDir, candidateDir) == SWIPE_BASE_THRESHOLD

\* detectSwipe, step 3: the dynamic threshold
SwipeThreshold(lastDir, candidateDir) ==
    IF lastDir # Null /\ lastDir # candidateDir
    THEN SWIPE_REVERSE_THRESHOLD
    ELSE SWIPE_BASE_THRESHOLD

\* detectSwipe without the vertical sanity check.
detectSwipe_NoVerticalCheck(sw, lastSwipeTime, wx, wy, t) ==
    IF t - lastSwipeTime < SWIPE_COOLDOWN
    THEN [dir |-> Null, swipe |-> Unanchored(sw)]
    ELSE LET s1 == StabilityStep(sw, wx, wy, t)
             deltaX == wx - s1.swipeStartX
             candidateDir == IF deltaX > 0 THEN "left" ELSE "right"
             threshold == SwipeThreshold(s1.lastSwipeDirection, candidateDir)
         IN  IF s1.swipeStartX = NoCoord
             THEN [dir |-> Null, swipe |-> Anchored(s1, wx, wy, t)]
             ELSE IF t - s1.swipeStartTime > SWIPE_TIME_LIMIT
             THEN [dir |-> Null, swipe |-> Anchored(s1, wx, wy, t)]
             ELSE IF Abs(deltaX) > threshold
             THEN [dir |-> candidateDir,
                   swipe |-> [Unanchored(s1) EXCEPT
                                 !.lastSwipeDirection = candidateDir,
                                 !.stableFrameCount = 0,
                                 !.zeroVelocityLastX = wx]]
             ELSE [dir |-> Null, swipe |-> s1]

\* detectSwipe(landmarks) at time t for the wrist at (wx, wy): the returned
\* direction (Null for null) and the tracker state after.
detectSwipe(sw, lastSwipeTime, wx, wy, t) ==
    IF t - lastSwipeTime < SWIPE_COOLDOWN
    THEN [dir |-> Null, swipe |-> Unanchored(sw)]
    ELSE LET s1 == StabilityStep(sw, wx, wy, t)
             deltaX == wx - s1.swipeStartX
             deltaY == wy - s1.swipeStartY
             candidateDir == IF deltaX > 0 THEN "left" ELSE "right"
             threshold == SwipeThreshold(s1.lastSwipeDirection, candidateDir)
         IN  IF s1.swipeStartX = NoCoord
             THEN [dir |-> Null, swipe |-> Anchored(s1, wx, wy, t)]
             ELSE IF t - s1.swipeStartTime > SWIPE_TIME_LIMIT
             THEN [dir |-> Null, swipe |-> Anchored(s1, wx, wy, t)]
             ELSE IF Abs(deltaX) > threshold
             THEN IF Abs(deltaY) > Abs(deltaX) * 2
                  THEN [dir |-> Null, swipe |-> Anchored(s1, wx, wy, t)]
                  ELSE [dir |-> candidateDir,
                        swipe |-> [Unanchored(s1) EXCEPT
                                      !.lastSwipeDirection = candidateDir,
                                      !.stableFrameCount = 0,
                                      !.zeroVelocityLastX = wx]]
             ELSE [dir |-> Null, swipe |-> s1]

----------------------------------------------------------------------------
(* gestures.js: the execute actions *)

InitialCooldown ==
    [lastConfirmTime |-> 0, lastStopTime |-> 0, lastVictoryTime |-> 0,
     lastSwipeTime |-> 0, lastItalianTime |-> 0, lastRemoveTime |-> 0,
     lastFistTime |-> 0]

\* The element under the virtual cursor (getInteractiveElementAt) and the
\* product its data-product-id names, NoProduct when it names none.
ElementKinds == {"none", "product-card", "btn-add-cart", "btn-back", "filter-btn"}
Element(kind, p) == [kind |-> kind, product |-> p]
NoElement == Element("none", NoProduct)

\* What an execute action works on: the store, the coverflow index, the
\* cooldown timestamps and the pending timers; fired collects the kinds whose
\* action passed its cooldown check.
World(st, ai, cd, tms) ==
    [state |-> st, activeIndex |-> ai, cooldown |-> cd, timers |-> tms, fired |-> {}]

\* The cooldown check at the top of an execute action that lets every call through.
InCooldown_Never(t, last, cd) == FALSE

\* The cooldown check that also drops a call made a hold and a re-arm delay
\* after the cooldown.
InCooldown_PastHold(t, last, cd) == t - last <= cd + GESTURE_HOLD_DURATION

\* The cooldown check at the top of every execute action
InCooldown(t, last, cd) == t - last < cd

\* The kinds of execute action, the timestamp each one checks and stamps, and
\* the cooldown it checks it against.
ExecuteKinds == {"confirm", "remove", "stop", "victory", "italian", "fist", "swipe"}

LastFire(cd, kind) ==
    CASE kind = "confirm" -> cd.lastConfirmTime
      [] kind = "remove" -> cd.lastRemoveTime
      [] kind = "stop" -> cd.lastStopTime
      [] kind = "victory" -> cd.lastVictoryTime
      [] kind = "italian" -> cd.lastItalianTime
      [] kind = "fist" -> cd.lastFistTime
      [] OTHER -> cd.lastSwipeTime

CooldownOf(kind) ==
    CASE kind = "confirm" -> CONFIRM_COOLDOWN
      [] kind = "remove" -> REMOVE_COOLDOWN
      [] kind = "stop" -> STOP_COOLDOWN
      [] kind = "victory" -> VICTORY_COOLDOWN
      [] kind = "italian" -> ITALIAN_COOLDOWN
      [] kind = "fist" -> CONFIRM_COOLDOWN
      [] OTHER -> SWIPE_COOLDOWN

\* executeConfirmAction that treats CART like BROWSE: it adds the focused
\* product whatever the cart holds.
executeConfirmAction_CartAsBrowse(w, el, t) ==
    IF InCooldown(t, w.cooldown.lastConfirmTime, CONFIRM_COOLDOWN) THEN w
    ELSE LET w1 == [w EXCEPT !.cooldown.lastConfirmTime = t, !.fired = @ \cup {"confirm"}]
             focused == getActiveProduct(w.activeIndex)
         IN  IF focused # NoProduct
             THEN [w1 EXCEPT !.state = addToCart(w.state, focused)]
             ELSE w1

\* executeConfirmAction(element, cursorPos)
executeConfirmAction(w, el, t) ==
    IF InCooldown(t, w.cooldown.lastConfirmTime, CONFIRM_COOLDOWN) THEN w
    ELSE LET w1 == [w EXCEPT !.cooldown.lastConfirmTime = t, !.fired = @ \cup {"confirm"}]
             st == w.state
             focused == getActiveProduct(w.activeIndex)
             item == ActiveCartItem(st)
         IN  IF st.currentMode = BROWSE
             THEN IF focused # NoProduct
                  THEN [w1 EXCEPT !.state = addToCart(st, focused)]
                  ELSE w1
             ELSE IF st.currentMode = CART
             THEN IF Len(st.cart) > 0 /\ item # NoProduct
                  THEN [w1 EXCEPT !.state = addToCart(st, item)]
                  ELSE w1
             ELSE IF st.currentMode = DETAILS
             THEN IF st.selectedProduct # NoProduct
                  THEN [w1 EXCEPT !.state = addToCart(st, st.selectedProduct)]
                  ELSE w1
             ELSE IF el.kind = "product-card"
             THEN IF el.product # NoProduct
                  THEN [w1 EXCEPT !.state = setMode(st, DETAILS, el.product)]
                  ELSE w1
             ELSE IF el.kind = "btn-add-cart"
             THEN IF el.product # NoProduct
                  THEN [w1 EXCEPT !.state = addToCart(st, el.product)]
                  ELSE w1
             ELSE IF el.kind = "btn-back"
             THEN [w1 EXCEPT !.state = setMode(st, BROWSE, NoProduct)]
             ELSE w1

\* executeRemoveAction(element, cursorPos)
executeRemoveAction(w, el, t) ==
    IF InCooldown(t, w.cooldown.lastRemoveTime, REMOVE_COOLDOWN) THEN w
    ELSE LET w1 == [w EXCEPT !.cooldown.lastRemoveTime = t, !.fired = @ \cup {"remove"}]
             st == w.state
             item == ActiveCartItem(st)
         IN  IF st.currentMode = CART
             THEN IF Len(st.cart) > 0 /\ item # NoProduct
                  THEN [w1 EXCEPT !.state = decreaseCartItem(st, item)]
                  ELSE w1
             ELSE IF el.kind \in {"product-card", "btn-add-cart"} /\ el.product # NoProduct
             THEN [w1 EXCEPT !.state = decreaseCartItem(st, el.product)]
             ELSE w1

\* executeStopAction that always goes back to BROWSE.
executeStopAction_ToBrowse(w, t) ==
    IF InCooldown(t, w.cooldown.lastStopTime, STOP_COOLDOWN) THEN w
    ELSE [w EXCEPT !.cooldown.lastStopTime = t, !.fired = @ \cup {"stop"},
                   !.state = setMode(w.state, BROWSE, NoProduct)]

\* executeStopAction(); purchaseConfirmationPending is never set, so its
\* branch is dead.
executeStopAction(w, t) ==
    IF InCooldown(t, w.cooldown.lastStopTime, STOP_COOLDOWN) THEN w
    ELSE LET w1 == [w EXCEPT !.cooldown.lastStopTime = t, !.fired = @ \cup {"stop"}]
             st == w.state
         IN  IF st.currentMode = CART
             THEN [w1 EXCEPT !.state = setMode(st, BROWSE, NoProduct)]
             ELSE IF st.currentMode = DETAILS
             THEN IF st.previousMode = CART
                  THEN [w1 EXCEPT !.state = setMode(st, CART, NoProduct)]
                  ELSE [w1 EXCEPT !.state = setMode(st, BROWSE, NoProduct)]
             ELSE IF st.currentMode = CHECKOUT
             THEN [w1 EXCEPT !.state = setMode(st, CART, NoProduct)]
             ELSE w1

\* executeVictoryAction that goes to CHECKOUT from CART whatever the cart holds.
executeVictoryAction_NoGuard(w, t) ==
    IF InCooldown(t, w.cooldown.lastVictoryTime, VICTORY_COOLDOWN) THEN w
    ELSE LET w1 == [w EXCEPT !.cooldown.lastVictoryTime = t, !.fired = @ \cup {"victory"}]
             st == w.state
         IN  IF st.currentMode \in {BROWSE, DETAILS}
             THEN [w1 EXCEPT !.state = setMode(st, CART, NoProduct)]
             ELSE IF st.currentMode = CART
             THEN [w1 EXCEPT !.state = setMode(st, CHECKOUT, NoProduct)]
             ELSE [w1 EXCEPT !.timers = handleCheckoutSuccess(@, t, "gesture")]

\* executeVictoryAction()
executeVictoryAction(w, t) ==
    IF InCooldown(t, w.cooldown.lastVictoryTime, VICTORY_COOLDOWN) THEN w
    ELSE LET w1 == [w EXCEPT !.cooldown.lastVictoryTime = t, !.fired = @ \cup {"victory"}]
             st == w.state
         IN  IF st.currentMode \in {BROWSE, DETAILS}
             THEN [w1 EXCEPT !.state = setMode(st, CART, NoProduct)]
             ELSE IF st.currentMode = CART
             THEN IF Len(st.cart) = 0
                  THEN w1
                  ELSE [w1 EXCEPT !.state = setMode(st, CHECKOUT, NoProduct)]
             ELSE [w1 EXCEPT !.timers = handleCheckoutSuccess(@, t, "gesture")]

\* executeItalianAction(element)
executeItalianAction(w, el, t) ==
    IF InCooldown(t, w.cooldown.lastItalianTime, ITALIAN_COOLDOWN) THEN w
    ELSE LET w1 == [w EXCEPT !.cooldown.lastItalianTime = t, !.fired = @ \cup {"italian"}]
             st == w.state
             focused == getActiveProduct(w.activeIndex)
             item == ActiveCartItem(st)
         IN  IF st.currentMode = BROWSE
             THEN IF focused # NoProduct
                  THEN [w1 EXCEPT !.state = addToCart(addToCart(st, focused), focused)]
                  ELSE w1
             ELSE IF st.currentMode = CART
             THEN IF Len(st.cart) > 0 /\ item # NoProduct
                  THEN [w1 EXCEPT !.state = addToCart(addToCart(st, item), item)]
                  ELSE w1
             ELSE IF st.currentMode = DETAILS
             THEN IF st.selectedProduct # NoProduct
                  THEN [w1 EXCEPT !.state =
                            addToCart(addToCart(st, st.selectedProduct), st.selectedProduct)]
                  ELSE w1
             ELSE w1

\* executeClosedFistAction(); its cooldown is CONFIG.CONFIRM_COOLDOWN
executeClosedFistAction(w, t) ==
    IF InCooldown(t, w.cooldown.lastFistTime, CONFIRM_COOLDOWN) THEN w
    ELSE LET w1 == [w EXCEPT !.cooldown.lastFistTime = t, !.fired = @ \cup {"fist"}]
             st == w.state
             focused == getActiveProduct(w.activeIndex)
             item == ActiveCartItem(st)
         IN  IF st.currentMode = BROWSE
             THEN IF focused # NoProduct
                  THEN [w1 EXCEPT !.state = setMode(st, DETAILS, focused)]
                  ELSE w1
             ELSE IF st.currentMode = CART
             THEN IF Len(st.cart) > 0 /\ item # NoProduct
                  THEN [w1 EXCEPT !.state = setMode(st, DETAILS, item)]
                  ELSE w1
             ELSE w1

\* executeSwipeAction(direction)
executeSwipeAction(w, dir, t) ==
    IF InCooldown(t, w.cooldown.lastSwipeTime, SWIPE_COOLDOWN) THEN w
    ELSE LET w1 == [w EXCEPT !.cooldown.lastSwipeTime = t, !.fired = @ \cup {"swipe"}]
             st == w.state
         IN  IF st.currentMode = BROWSE
             THEN IF dir = "left"
                  THEN [w1 EXCEPT !.activeIndex = coverflowNext(@).activeIndex]
                  ELSE [w1 EXCEPT !.activeIndex = coverflowPrev(@).activeIndex]
             ELSE IF st.currentMode = CART /\ Len(st.cart) > 0
             THEN IF dir = "left"
                  THEN [w1 EXCEPT !.state = setCartActiveIndex(st, st.cartActiveIndex + 1)]
                  ELSE [w1 EXCEPT !.state = setCartActiveIndex(st, st.cartActiveIndex - 1)]
             ELSE w1

\* executeSwipeAction in BROWSE: success is false, so 'LIMITE ALCANZADO' is shown.
swipeAtLimit(w, dir) ==
    /\ w.state.currentMode = BROWSE
    /\ ~(IF dir = "left" THEN coverflowNext(w.activeIndex).ok
                         ELSE coverflowPrev(w.activeIndex).ok)

\* The text an execute action that passed its cooldown check hands to
\* showFeedback, Null when it shows none; product names and the swipe
\* direction in the text are left out.
showFeedback(kind, w, el, dir) ==
    LET st == w.state
        mode == st.currentMode
        focused == getActiveProduct(w.activeIndex)
        item == ActiveCartItem(st)
        onProduct == el.kind \in {"product-card", "btn-add-cart"} /\ el.product # NoProduct
        plus(n) ==
            IF mode = BROWSE
            THEN IF focused # NoProduct THEN n ELSE "No hay producto en foco"
            ELSE IF mode = CART
            THEN IF Len(st.cart) > 0
                 THEN IF item # NoProduct THEN n ELSE Null
                 ELSE "Carrito Vacio"
            ELSE IF mode = DETAILS
            THEN IF st.selectedProduct # NoProduct THEN n ELSE Null
            ELSE Null
    IN  CASE kind = "confirm" ->
                IF mode \in {BROWSE, CART, DETAILS} THEN plus("+1")
                ELSE IF el.kind = "none" THEN "CONFIRMAR" ELSE Null
          [] kind = "remove" ->
                IF mode = CART
                THEN IF Len(st.cart) > 0
                     THEN IF item # NoProduct THEN "-1" ELSE Null
                     ELSE "Carrito Vacio"
                ELSE IF onProduct THEN "-1" ELSE "Apunta a un producto"
          [] kind = "italian" ->
                IF mode \in {BROWSE, CART, DETAILS} THEN plus("+2") ELSE "ITALIANO"
          [] kind = "stop" ->
                IF mode = CART THEN "VOLVER A TIENDA"
                ELSE IF mode = DETAILS
                THEN IF st.previousMode = CART THEN "VOLVER AL CARRITO" ELSE "VOLVER A TIENDA"
                ELSE IF mode = CHECKOUT THEN "CANCELADO"
                ELSE "STOP / ATRAS"
          [] kind = "victory" ->
                IF mode \in {BROWSE, DETAILS} THEN "IR AL CARRITO"
                ELSE IF mode = CART
                THEN IF Len(st.cart) = 0 THEN "CARRITO VACIO" ELSE "CONFIRMAR?"
                ELSE Null
          [] kind = "fist" ->
                IF mode = BROWSE
                THEN IF focused # NoProduct THEN "Detalles" ELSE "No hay producto en foco"
                ELSE IF mode = CART
                THEN IF Len(st.cart) > 0
                     THEN IF item # NoProduct THEN "Detalles" ELSE Null
                     ELSE "Carrito Vacio"
                ELSE "PUNO CERRADO"
          [] OTHER ->
                IF mode = BROWSE
                THEN IF swipeAtLimit(w, dir) THEN "LIMITE ALCANZADO"
                     ELSE IF dir = "left" THEN "SIGUIENTE" ELSE "ANTERIOR"
                ELSE IF mode = CART /\ Len(st.cart) > 0
                THEN IF dir = "left" THEN "SIGUIENTE" ELSE "ANTERIOR"
                ELSE "SWIPE"

----------------------------------------------------------------------------
(* gestures.js: processFrame *)

Poses == {"Italian", "Thumb_Up", "Thumb_Down", "Open_Palm", "Victory", "Closed_Fist"}

\* The labels processFrame accepts from the model
AcceptedLabels == {"Thumb_Up", "Thumb_Down", "Open_Palm", "Victory", "Closed_Fist"}

\* One recognizeForVideo result: whether a hand is present, whether
\* detectItalianGesture holds of its landmarks, the model's top label (Null
\* when results.gestures is empty) and its score in hundredths, the wrist
\* position, and the element under the cursor; lm is NoHand, the landmarks
\* other than the wrist being left open.
Frame(hand, italian, label, score, wx, wy, el) ==
    [hand |-> hand, italian |-> italian, label |-> label, score |-> score,
     wx |-> wx, wy |-> wy, el |-> el, lm |-> NoHand]

\* The thousandths of the frame in one landmark unit
HandUnit == 50

\* One recognizeForVideo result with its landmarks lm.
HandFrame(lm, label, score, el) ==
    [Frame(TRUE, detectItalianGesture(lm), label, score,
           lm.WRIST.x * HandUnit, lm.WRIST.y * HandUnit, el) EXCEPT !.lm = lm]

\* currentFrameGesture where the model's label goes before the manual check.
currentFrameGesture_ModelFirst(f) ==
    IF f.label # Null /\ f.score > 50 /\ f.label \in AcceptedLabels THEN f.label
    ELSE IF f.italian THEN "Italian"
    ELSE Null

\* processFrame, step 2: currentFrameGesture
currentFrameGesture(f) ==
    IF f.italian THEN "Italian"
    ELSE IF f.label # Null /\ f.score > 50 /\ f.label \in AcceptedLabels THEN f.label
    ELSE Null

IdleHold ==
    [pendingGesture |-> Null, pendingGestureStart |-> 0, lastPendingProgress |-> 0,
     gestureJustSucceeded |-> FALSE]

\* Math.min(100, Math.max(0, (elapsed / GESTURE_HOLD_DURATION) * 100)), rounded down
Progress(elapsed) == Min(100, Max(0, (elapsed * 100) \div GESTURE_HOLD_DURATION))

\* The dwell step that keeps the old start time when the gesture changes.
dwell_NoRestart(h, g, t) ==
    IF g = Null THEN [hold |-> IdleHold, confirmed |-> Null]
    ELSE IF h.pendingGesture # g
    THEN [hold |-> [h EXCEPT !.pendingGesture = g, !.lastPendingProgress = 0],
          confirmed |-> Null]
    ELSE IF t - h.pendingGestureStart >= GESTURE_HOLD_DURATION
    THEN [hold |-> [h EXCEPT !.lastPendingProgress = 0,
                             !.pendingGestureStart = t + REARM_DELAY,
                             !.gestureJustSucceeded = TRUE],
          confirmed |-> g]
    ELSE [hold |-> [h EXCEPT !.lastPendingProgress = Progress(t - h.pendingGestureStart)],
          confirmed |-> Null]

\* The dwell step that goes back to idle after a confirmation instead of re-arming.
dwell_NoRearm(h, g, t) ==
    IF g = Null THEN [hold |-> IdleHold, confirmed |-> Null]
    ELSE IF h.pendingGesture # g
    THEN [hold |-> [h EXCEPT !.pendingGesture = g, !.pendingGestureStart = t,
                             !.lastPendingProgress = 0],
          confirmed |-> Null]
    ELSE IF t - h.pendingGestureStart >= GESTURE_HOLD_DURATION
    THEN [hold |-> [h EXCEPT !.lastPendingProgress = 0,
                             !.pendingGestureStart = t,
                             !.gestureJustSucceeded = TRUE],
          confirmed |-> g]
    ELSE [hold |-> [h EXCEPT !.lastPendingProgress = Progress(t - h.pendingGestureStart)],
          confirmed |-> Null]

\* processFrame, step 3 (hold / dwell) for the frame's gesture g at time t:
\* the stabilizer after, and the gesture confirmed by this frame (Null if none).
dwell(h, g, t) ==
    IF g = Null THEN [hold |-> IdleHold, confirmed |-> Null]
    ELSE IF h.pendingGesture # g
    THEN [hold |-> [h EXCEPT !.pendingGesture = g, !.pendingGestureStart = t,
                             !.lastPendingProgress = 0],
          confirmed |-> Null]
    ELSE IF t - h.pendingGestureStart >= GESTURE_HOLD_DURATION
    THEN [hold |-> [h EXCEPT !.lastPendingProgress = 0,
                             !.pendingGestureStart = t + REARM_DELAY,
                             !.gestureJustSucceeded = TRUE],
          confirmed |-> g]
    ELSE [hold |-> [h EXCEPT !.lastPendingProgress = Progress(t - h.pendingGestureStart)],
          confirmed |-> Null]

\* processFrame, the switch on the confirmed gesture
Dispatch(w, g, el, t) ==
    CASE g = "Italian" -> executeItalianAction(w, el, t)
      [] g = "Thumb_Up" -> executeConfirmAction(w, el, t)
      [] g = "Thumb_Down" -> executeRemoveAction(w, el, t)
      [] g = "Open_Palm" -> executeStopAction(w, t)
      [] g = "Victory" -> executeVictoryAction(w, t)
      [] g = "Closed_Fist" -> executeClosedFistAction(w, t)
      [] OTHER -> w

\* What one processFrame invocation did: the stabilizer, the swipe tracker and
\* the world after, the pose it confirmed, the swipe it triggered, the lock
\* after and the lock holder while the actions were dispatched.
FrameOutcome(h, sw, w, confirmed, dir, l) ==
    [hold |-> h, swipe |-> sw, world |-> w, confirmed |-> confirmed, swipeDir |-> dir,
     lock |-> l, holder |-> l.lockedBy]

\* processFrame() at time t on result f (isRunning, the recognizer and the
\* video being ready); gv is isGridViewActive().
processFrame(h, sw, w, l, f, gv, t) ==
    IF ~f.hand
    THEN FrameOutcome(IdleHold,
                      [Unanchored(sw) EXCEPT !.lastSwipeDirection = Null,
                                             !.stableFrameCount = 0],
                      w, Null, Null, l)
    ELSE IF gv
    THEN FrameOutcome([h EXCEPT !.pendingGesture = Null],
                      [sw EXCEPT !.lastSwipeDirection = Null], w, Null, Null, l)
    ELSE LET d == dwell(h, currentFrameGesture(f), t)
             w1 == IF d.confirmed # Null THEN Dispatch(w, d.confirmed, f.el, t) ELSE w
             s == detectSwipe(sw, w1.cooldown.lastSwipeTime, f.wx, f.wy, t)
         IN  IF s.dir # Null
             THEN FrameOutcome([d.hold EXCEPT !.pendingGesture = Null,
                                              !.lastPendingProgress = 0],
                               s.swipe, executeSwipeAction(w1, s.dir, t),
                               d.confirmed, s.dir, l)
             ELSE FrameOutcome(d.hold, s.swipe, w1, d.confirmed, Null, l)

----------------------------------------------------------------------------
(* Observations *)

\* The last operation: its name, the calling source, the returned boolean,
\* whether it acquired the lock, whether the guarded action or handler ran and
\* whether it threw, the lock holder while it mutated or dispatched, and its
\* argument; for a frame also the candidate, the wrist position, the confirmed
\* pose, the triggered swipe, the kinds whose execute action passed its
\* cooldown, and the pending pose, its progress and the remembered swipe
\* direction the frame started from; for an execute action also the length of
\* the cart it started from.
NoEv ==
    [op |-> "init", source |-> Null, ok |-> FALSE, acquired |-> FALSE,
     ran |-> FALSE, threw |-> FALSE,
     holder |-> Null, arg |-> Null, cand |-> Null, wx |-> NoCoord, wy |-> NoCoord,
     confirmed |-> Null, swipeDir |-> Null, fired |-> {},
     pending |-> Null, progress |-> 0, lastDir |-> Null, cartLen |-> 0,
     limit |-> FALSE, feedback |-> Null, lm |-> NoHand, label |-> Null, score |-> 0,
     focus |-> NoProduct, startX |-> NoCoord, startY |-> NoCoord]

\* The acquisitions still inside their timeout window at time t
Live(gs, t) == {g \in gs : t - g.at <= LOCK_TIMEOUT}

Grant(source, t) == [source |-> source, at |-> t]

\* The grants after an operation by source that left the lock as l at time t:
\* a lock taken at t by source and still held is a new grant, otherwise the
\* operation released whatever source held.
GrantsAfter(gs, l, source, t) ==
    IF l.isLocked /\ l.lockedBy = source /\ l.lockTime = t
    THEN Live(gs, t) \cup {Grant(source, t)}
    ELSE {g \in gs : g.source # source}

\* The uninterrupted presentation of one pose: its kind, the times of its
\* first and latest frame, the confirmations it produced and the time of the
\* first of them.
NoRun == [kind |-> Null, start |-> NoTime, last |-> NoTime, confirms |-> 0,
          firstConfirm |-> NoTime]

\* The run after a frame with candidate cand (Null for none, no hand or the
\* grid view) that confirmed or not and triggered a swipe or not; a change of
\* candidate and a triggered swipe end the run.
RunAfter(r, cand, confirmed, swiped, t) ==
    LET base == IF r.kind = cand THEN r
                ELSE [kind |-> cand, start |-> t, last |-> t, confirms |-> 0,
                      firstConfirm |-> NoTime]
    IN  IF cand = Null \/ swiped THEN NoRun
        ELSE [base EXCEPT !.last = t,
                          !.confirms = IF confirmed THEN @ + 1 ELSE @,
                          !.firstConfirm = IF confirmed /\ @ = NoTime THEN t ELSE @]

\* Before the camera button is used: the demo is not started, no recognizer
\* is loaded and no onStartDemo call is in progress.
InitialDemo == [demoStarted |-> FALSE, gestureRecognizer |-> FALSE, awaiting |-> 0]

----------------------------------------------------------------------------
(* The state after the modules are loaded *)

Init ==
    /\ now = Epoch
    /\ actionLock = FreeLock
    /\ state = InitialState
    /\ activeIndex = 0
    /\ products = Products
    /\ gridView = FALSE
    /\ isRunning = FALSE
    /\ hold = IdleHold
    /\ cooldown = InitialCooldown
    /\ swipe = InitialSwipe
    /\ timers = {}
    /\ ev = NoEv
    /\ grants = {}
    /\ run = NoRun
    /\ demo = InitialDemo

storeVars == <<state, activeIndex, timers>>
gestureVars == <<isRunning, hold, cooldown, swipe, run>>

----------------------------------------------------------------------------
(* Actions *)

\* d milliseconds pass, up to the time limit; a due timer fires first.
Tick(d, limit) ==
    /\ now + d <= limit
    /\ \A tm \in timers : now + d <= tm.due
    /\ now' = now + d
    /\ grants' = Live(grants, now + d)
    /\ ev' = [NoEv EXCEPT !.op = "tick"]
    /\ UNCHANGED <<demo, actionLock, gridView, products, storeVars, gestureVars>>

\* A caller outside the pipelines calls acquireActionLock(source).
AcquireCall(source) ==
    LET a == acquireActionLock(actionLock, source, now)
    IN  /\ actionLock' = a.lock
        /\ grants' = IF a.ok THEN Live(grants, now) \cup {Grant(source, now)} ELSE grants
        /\ ev' = [NoEv EXCEPT !.op = "acquire", !.source = source, !.ok = a.ok,
                              !.acquired = a.ok,
                              !.holder = actionLock.lockedBy]
        /\ UNCHANGED <<demo, now, gridView, products, storeVars, gestureVars>>

\* A caller calls releaseActionLock(source).
ReleaseCall(source) ==
    /\ actionLock' = releaseActionLock(actionLock, source)
    /\ grants' = {g \in grants : g.source # source}
    /\ ev' = [NoEv EXCEPT !.op = "release", !.source = source,
                          !.holder = actionLock.lockedBy]
    /\ UNCHANGED <<demo, now, gridView, products, storeVars, gestureVars>>

\* A caller calls isActionLocked().
IsLockedCall ==
    LET r == isActionLocked(actionLock, now)
    IN  /\ actionLock' = r.lock
        /\ ev' = [NoEv EXCEPT !.op = "isLocked", !.ok = r.locked,
                              !.holder = actionLock.lockedBy]
        /\ UNCHANGED <<demo, now, gridView, products, storeVars, gestureVars, grants>>

\* A caller calls executeWithLock(source, action) with an action that throws or not.
ExecuteWithLockCall(source, throws) ==
    LET r == executeWithLock(actionLock, source, now, throws)
    IN  /\ actionLock' = r.lock
        /\ grants' = IF r.ran THEN GrantsAfter(grants, r.lock, source, now) ELSE grants
        /\ ev' = [NoEv EXCEPT !.op = "executeWithLock", !.source = source, !.ok = r.ok,
                              !.acquired = r.acquired,
                              !.ran = r.ran, !.threw = r.threw,
                              !.holder = actionLock.lockedBy]
        /\ UNCHANGED <<demo, now, gridView, products, storeVars, gestureVars>>

\* recognition.onresult delivers a final transcript: processVoiceCommand.
VoiceCommand(cmd, throws) ==
    LET r == processVoiceCommand(actionLock, now, cmd, throws, state, activeIndex, gridView)
    IN  /\ CartBounded(r.effect.state)
        /\ actionLock' = r.lock
        /\ state' = r.effect.state
        /\ activeIndex' = r.effect.activeIndex
        /\ timers' = IF r.effect.finalize
                     THEN handleCheckoutSuccess(timers, now, "voice")
                     ELSE timers
        /\ grants' = IF r.ran THEN GrantsAfter(grants, r.lock, "voice", now) ELSE grants
        /\ ev' = [NoEv EXCEPT !.op = "voice", !.source = "voice", !.ok = r.ran /\ ~r.threw,
                              !.acquired = r.acquired,
                              !.ran = r.ran, !.threw = r.threw, !.arg = cmd.name,
                              !.holder = actionLock.lockedBy]
        /\ UNCHANGED <<demo, now, gridView, products, gestureVars>>

\* The setTimeout callback of handleCheckoutSuccess runs, at its due time
\* (explored up to the time limit).
FireTimer(tm, limit) ==
    /\ tm \in timers
    /\ tm.due <= limit
    /\ now' = Max(now, tm.due)
    /\ state' = TimerBody(state)
    /\ timers' = timers \ {tm}
    /\ grants' = Live(grants, Max(now, tm.due))
    /\ ev' = [NoEv EXCEPT !.op = "timer", !.source = tm.origin,
                          !.holder = actionLock.lockedBy]
    /\ UNCHANGED <<demo, actionLock, activeIndex, gridView, products, gestureVars>>

\* ui.js setViewType: the user switches between the grid and the coverflow;
\* coming back to the coverflow renders it anew, focused on the first product.
SetViewType ==
    /\ gridView' = ~gridView
    /\ activeIndex' = IF gridView THEN 0 ELSE activeIndex
    /\ ev' = [NoEv EXCEPT !.op = "view"]
    /\ UNCHANGED <<demo, now, products, actionLock, state, timers, gestureVars, grants>>

\* One processFrame invocation on result f.
FrameStep(f) ==
    LET r == processFrame(hold, swipe, World(state, activeIndex, cooldown, timers),
                          actionLock, f, gridView, now)
        cand == IF f.hand /\ ~gridView THEN currentFrameGesture(f) ELSE Null
    IN  /\ CartBounded(r.world.state)
        /\ hold' = r.hold
        /\ swipe' = r.swipe
        /\ state' = r.world.state
        /\ activeIndex' = r.world.activeIndex
        /\ cooldown' = r.world.cooldown
        /\ timers' = r.world.timers
        /\ actionLock' = r.lock
        /\ run' = RunAfter(run, cand, r.confirmed # Null, r.swipeDir # Null, now)
        /\ ev' = [NoEv EXCEPT !.op = "frame", !.source = "gesture",
                              !.ok = r.confirmed # Null \/ r.swipeDir # Null,
                              !.cand = cand, !.wx = f.wx, !.wy = f.wy,
                              !.confirmed = r.confirmed, !.swipeDir = r.swipeDir,
                              !.fired = r.world.fired, !.holder = r.holder,
                              !.pending = hold.pendingGesture,
                              !.progress = hold.lastPendingProgress,
                              !.lastDir = swipe.lastSwipeDirection,
                              !.startX = swipe.swipeStartX,
                              !.startY = swipe.swipeStartY,
                              !.lm = f.lm, !.label = f.label, !.score = f.score]
        /\ UNCHANGED <<now, gridView, products, grants>>

\* startDetection(): sets isRunning and runs the first processFrame.
StartDetection(f) ==
    /\ ~isRunning
    /\ isRunning' = TRUE
    /\ FrameStep(f)
    /\ UNCHANGED demo

\* stopDetection(): it clears isRunning and cancels the pending animation
\* frame; the stabilizer, the swipe tracker and the lock are not touched.  The
\* hand is no longer observed, which ends the observed run.
StopDetection ==
    /\ isRunning' = FALSE
    /\ run' = NoRun
    /\ ev' = [NoEv EXCEPT !.op = "stop", !.source = "gesture", !.arg = "detection",
                          !.holder = actionLock.lockedBy]
    /\ UNCHANGED <<demo, now, actionLock, gridView, products, storeVars, hold, cooldown, swipe, grants>>

\* stopCamera(): stopDetection(), then the video tracks are stopped and the
\* camera and model services are marked off.
StopCamera ==
    /\ isRunning' = FALSE
    /\ run' = NoRun
    /\ ev' = [NoEv EXCEPT !.op = "stop", !.source = "gesture", !.arg = "camera",
                          !.holder = actionLock.lockedBy]
    /\ UNCHANGED <<demo, now, actionLock, gridView, products, storeVars, hold, cooldown, swipe, grants>>

\* The requestAnimationFrame callback while the video has no current frame
\* (readyState < 2): processFrame reschedules itself and returns.
SkipFrame ==
    /\ isRunning
    /\ ev' = [NoEv EXCEPT !.op = "skip", !.source = "gesture"]
    /\ UNCHANGED <<demo, now, actionLock, gridView, products, storeVars, gestureVars, grants>>

\* The requestAnimationFrame callback: processFrame on result f.
ProcessFrame(f) ==
    /\ isRunning
    /\ isRunning' = isRunning
    /\ FrameStep(f)
    /\ UNCHANGED demo

\* A click on the camera button: onStartDemo up to its first await.  With the
\* demo started it stops the camera, clears demoStarted and returns; otherwise
\* it sets demoStarted and waits for initMultimodalServices.
ClickStartDemo(limit) ==
    /\ IF demo.demoStarted
       THEN /\ isRunning' = FALSE
            /\ run' = NoRun
            /\ demo' = [demo EXCEPT !.demoStarted = FALSE]
       ELSE /\ demo.awaiting < limit
            /\ demo' = [demo EXCEPT !.demoStarted = TRUE, !.awaiting = @ + 1]
            /\ UNCHANGED <<isRunning, run>>
    /\ ev' = [NoEv EXCEPT !.op = "click", !.arg = "start-demo", !.ok = ~demo.demoStarted]
    /\ UNCHANGED <<now, actionLock, gridView, products, storeVars, hold, cooldown, swipe, grants>>

\* initMultimodalServices settles for one waiting onStartDemo call, which runs
\* to its end.  'ready': the camera and the model are up, the recognizer is
\* kept and startDetection() is called, whose first frame is f; 'failed': the
\* gestures module did not initialise; 'threw': the initialisation threw, and
\* the catch clause of onStartDemo clears demoStarted.
InitSettled(outcome, f) ==
    /\ demo.awaiting > 0
    /\ demo' = [demo EXCEPT !.awaiting = @ - 1,
                            !.gestureRecognizer = @ \/ outcome = "ready",
                            !.demoStarted = IF outcome = "threw" THEN FALSE ELSE @]
    /\ IF outcome = "ready" /\ ~isRunning
       THEN /\ isRunning' = TRUE
            /\ FrameStep(f)
       ELSE /\ ev' = [NoEv EXCEPT !.op = "settled", !.arg = outcome,
                                  !.ok = outcome = "ready"]
            /\ UNCHANGED <<now, actionLock, gridView, products, storeVars, gestureVars, grants>>

\* An execute action of gestures.js applied on its own: kind names it, el and
\* dir are its arguments.
ExecuteCall(kind, el, dir) ==
    LET w == World(state, activeIndex, cooldown, timers)
        r == CASE kind = "swipe" -> executeSwipeAction(w, dir, now)
               [] kind = "confirm" -> executeConfirmAction(w, el, now)
               [] kind = "remove" -> executeRemoveAction(w, el, now)
               [] kind = "stop" -> executeStopAction(w, now)
               [] kind = "victory" -> executeVictoryAction(w, now)
               [] kind = "italian" -> executeItalianAction(w, el, now)
               [] OTHER -> executeClosedFistAction(w, now)
    IN  /\ CartBounded(r.state)
        /\ state' = r.state
        /\ activeIndex' = r.activeIndex
        /\ cooldown' = r.cooldown
        /\ timers' = r.timers
        /\ ev' = [NoEv EXCEPT !.op = "execute", !.source = "gesture", !.arg = kind,
                              !.ok = kind \in r.fired, !.fired = r.fired,
                              !.holder = actionLock.lockedBy,
                              !.cartLen = Len(state.cart),
                              !.swipeDir = IF kind = "swipe" THEN dir ELSE Null,
                              !.limit = kind = "swipe" /\ kind \in r.fired
                                            /\ swipeAtLimit(w, dir),
                              !.feedback = IF kind \in r.fired
                                           THEN showFeedback(kind, w, el, dir)
                                           ELSE Null]
        /\ UNCHANGED <<demo, now, actionLock, gridView, products, isRunning, hold, swipe, run, grants>>

\* ui.js renderProducts after a filter change, coverflow view: the coverflow
\* is updated with the filtered products.
UpdateCoverflow(keep) ==
    /\ ~gridView
    /\ products' = getFilteredProducts(keep)
    /\ activeIndex' = updateHorizontalCoverflow(activeIndex, getFilteredProducts(keep))
    /\ ev' = [NoEv EXCEPT !.op = "update", !.focus = getActiveProduct(activeIndex)]
    /\ UNCHANGED <<demo, now, actionLock, state, timers, gridView, gestureVars, grants>>

\* horizontalCoverflow.js handleKeydown, ArrowRight / ArrowLeft: next() or
\* prev() in BROWSE, nothing in the other modes.
CoverflowKey(key) ==
    LET r == IF key = "ArrowRight" THEN coverflowNext(activeIndex)
                                   ELSE coverflowPrev(activeIndex)
        browsing == state.currentMode = BROWSE
    IN  /\ activeIndex' = IF browsing THEN r.activeIndex ELSE activeIndex
        /\ ev' = [NoEv EXCEPT !.op = "key", !.arg = key, !.ran = browsing,
                              !.ok = browsing /\ r.ok]
        /\ UNCHANGED <<demo, now, actionLock, state, products, timers, gridView,
                       gestureVars, grants>>

\* detectItalianGesture(landmarks) called on the landmarks that are waiting.
DetectItalianCall ==
    /\ ev.op = "landmarks"
    /\ ev' = [ev EXCEPT !.op = "detectItalian", !.ok = detectItalianGesture(ev.lm)]
    /\ UNCHANGED <<demo, now, actionLock, gridView, products, storeVars, gestureVars, grants>>

----------------------------------------------------------------------------
(* The action lock on its own: its three entry points, executeWithLock and   *)
(* the voice dispatcher, called in any order at any time.                    *)

LockTick == LOCK_TIMEOUT \div 3
LockCommands == {Cmd("ver carrito", NoProduct), Cmd("ver productos", NoProduct),
                 Cmd("none", NoProduct)}

NextLock ==
    \/ Tick(LockTick, Epoch + MaxLockTicks * LockTick)
    \/ \E s \in Sources : AcquireCall(s)
    \/ \E s \in Sources : ReleaseCall(s)
    \/ IsLockedCall
    \/ \E s \in Sources, throws \in BOOLEAN : ExecuteWithLockCall(s, throws)
    \/ \E c \in LockCommands, throws \in BOOLEAN : VoiceCommand(c, throws)

SpecLock == Init /\ [][NextLock]_vars

----------------------------------------------------------------------------
(* Claims about the action lock *)

\* C1: lock mutual exclusion.  Among the acquisitions that returned true and
\* whose holder has neither released nor outlived the 300 ms timeout window
\* there is never more than one, and it is the holder the lock records.
C1_MutualExclusion ==
    /\ Cardinality(grants) <= 1
    /\ \A g \in grants : actionLock.isLocked /\ actionLock.lockedBy = g.source

\* C1 case: an acquire call by the other source was denied while a grant is live.
C1_Witness ==
    /\ ev.op = "acquire" /\ ~ev.ok
    /\ \E g \in grants : g.source # ev.source /\ now - g.at < LOCK_TIMEOUT

\* C4: lock self-heal.  When 'gesture' holds the lock and has not released it,
\* an acquireActionLock('voice') called once more than timeoutMs (300 ms) have
\* passed since that acquisition returns true and makes 'voice' the holder.
C4_SelfHeal ==
    [][(/\ ev'.op = "acquire" /\ ev'.source = "voice"
        /\ actionLock.isLocked /\ actionLock.lockedBy = "gesture"
        /\ now - actionLock.lockTime > LOCK_TIMEOUT)
       => (ev'.ok /\ actionLock' = HeldLock("voice", now))]_vars

\* C4 case: 'voice' took over a lock that 'gesture' had left unreleased.
C4_Witness ==
    /\ ev.op = "acquire" /\ ev.source = "voice" /\ ev.ok /\ ev.holder = "gesture"
    /\ actionLock.lockedBy = "voice"

\* C5: releaseActionLock(source) by anyone but the current holder (the lock
\* held by the other source, or free) leaves isLocked, lockedBy and lockTime
\* unchanged.
C5_ReleaseOnlyByHolder ==
    [][(ev'.op = "release" /\ actionLock.lockedBy # ev'.source)
       => actionLock' = actionLock]_vars

\* C5 case: a release by the source that does not hold the lock, the lock
\* still held afterwards.
C5_Witness ==
    /\ ev.op = "release" /\ ev.holder \in Sources /\ ev.holder # ev.source
    /\ actionLock.isLocked /\ actionLock.lockedBy = ev.holder

\* C6: scoped release.  When executeWithLock or processVoiceCommand (on a
\* matched command) acquires the lock, the action or handler runs and, whether
\* it returns or throws, the lock is not held by that source afterwards; when
\* the acquisition is denied the action or handler does not run and the lock
\* and the store are unchanged.
C6_ScopedRelease ==
    [][(ev'.op \in {"executeWithLock", "voice"} /\ ev'.arg # "none")
       => /\ ev'.acquired => (ev'.ran /\ actionLock'.lockedBy # ev'.source)
          /\ ~ev'.acquired => (/\ ~ev'.ran
                               /\ actionLock' = actionLock
                               /\ state' = state)]_vars

\* C6 case: a voice handler threw and the lock is free again.
C6_Witness ==
    /\ ev.op = "voice" /\ ev.acquired /\ ev.ran /\ ev.threw
    /\ ~actionLock.isLocked

----------------------------------------------------------------------------
(* The voice dispatcher with every registered command and the deferred      *)
(* finalization of the purchase.                                             *)

VoiceTick == CHECKOUT_DELAY
\* The commands of a purchase: fill the cart, go to checkout, accept or cancel.
VoiceCommands ==
    {Cmd(n, NoProduct) : n \in {"agregar al carrito", "siguiente", "finalizar compra",
                                "aceptar", "cancelar", "ver productos", "none"}}

NextVoice ==
    \/ Tick(VoiceTick, Epoch + MaxVoiceTicks * VoiceTick)
    \/ \E c \in VoiceCommands, throws \in BOOLEAN : VoiceCommand(c, throws)
    \/ \E tm \in timers : FireTimer(tm, Epoch + MaxVoiceTicks * VoiceTick)

SpecVoice == Init /\ [][NextVoice]_vars

----------------------------------------------------------------------------
(* Claims about the voice dispatcher *)

\* C3: every store mutation caused by a voice command is performed while
\* 'voice' holds the action lock: the handler runs only with the lock acquired,
\* and the mutation its handler deferred (the cart clear and mode change of
\* purchase finalization) runs while 'voice' still holds the lock.
C3_VoiceMutatesUnderLock ==
    /\ (ev.op = "voice" /\ ev.ran) => ev.acquired
    /\ (ev.op = "timer" /\ ev.source = "voice") => ev.holder = "voice"

----------------------------------------------------------------------------
(* The gesture pipeline on held poses: detection is started and the          *)
(* animation frames arrive a second apart.                                   *)

DwellTick == REARM_DELAY

\* The frames of a hand that shows a thumb up (at one of two wrist positions),
\* an open palm, a thumb up below the score threshold or no pose, and the
\* frame without a hand.
DwellFrames ==
    {Frame(TRUE, FALSE, "Thumb_Up", 80, wx, 500, NoElement) : wx \in {300, 500}}
    \cup {Frame(TRUE, FALSE, "Open_Palm", 80, 300, 500, NoElement),
          Frame(TRUE, FALSE, "Thumb_Up", 40, 300, 500, NoElement),
          Frame(TRUE, FALSE, Null, 0, 300, 500, NoElement),
          Frame(FALSE, FALSE, Null, 0, NoCoord, NoCoord, NoElement)}

\* requestAnimationFrame runs one callback per animation frame: after a frame
\* the clock advances before the next one.
NextDwell ==
    \/ Tick(DwellTick, Epoch + MaxDwellTicks * DwellTick)
    \/ \E f \in DwellFrames : StartDetection(f)
    \/ \E f \in DwellFrames : ev.op # "frame" /\ ProcessFrame(f)

SpecDwell == Init /\ [][NextDwell]_vars

----------------------------------------------------------------------------
(* Claims about the stabilizer *)

\* C2: every confirmed gesture (a dwell-confirmed pose or a triggered swipe)
\* is dispatched by processFrame only after acquireActionLock('gesture') was
\* attempted and granted: 'gesture' holds the lock while the action is
\* dispatched.
C2_GestureDispatchUnderLock ==
    (ev.op = "frame" /\ (ev.confirmed # Null \/ ev.swipeDir # Null))
        => ev.holder = "gesture"

C8_InterruptionResets ==
    [][(ev'.op = "frame")
       => /\ (/\ hold.pendingGesture # Null
              /\ ev'.cand # Null
              /\ ev'.cand # hold.pendingGesture)
                => /\ ev'.confirmed = Null
                   /\ hold'.pendingGestureStart = now
                   /\ hold'.lastPendingProgress = 0
          /\ ev'.confirmed # Null
                => /\ ev'.confirmed = ev'.cand
                   /\ run.kind = ev'.cand
                   /\ now - run.start >= GESTURE_HOLD_DURATION]_vars

\* C8 case: a pose with progress was replaced by a different pose, whose hold
\* has just started.
C8_Witness ==
    /\ ev.op = "frame" /\ ev.pending # Null /\ ev.progress > 0
    /\ ev.cand # Null /\ ev.cand # ev.pending
    /\ ev.confirmed = Null
    /\ hold.pendingGesture = ev.cand /\ hold.pendingGestureStart = now

----------------------------------------------------------------------------
(* The execute actions called on their own, in any order, half a second      *)
(* apart or at the same instant; one exploration calls a few of the kinds.   *)

ExecTick == SWIPE_COOLDOWN

\* The kinds that have fired since the page was loaded
FiredKinds(cd) == {k \in ExecuteKinds : LastFire(cd, k) > 0}

NextExec ==
    \/ Tick(ExecTick, Epoch + MaxExecTicks * ExecTick)
    \/ \E k \in ExecuteKinds, d \in {"left", "right"} :
          /\ k \in FiredKinds(cooldown) \/ Cardinality(FiredKinds(cooldown)) < MaxFiredKinds
          /\ ExecuteCall(k, NoElement, d)

SpecExec == Init /\ [][NextExec]_vars

----------------------------------------------------------------------------
(* Claims about the cooldowns *)

\* C9: cooldown gating.  For every kind K of execute action: a call inside the
\* cooldown window (now - lastFire[K] < cooldown[K]) changes neither the store,
\* the focus, the pending timers nor any last-fire timestamp; a call takes
\* effect only outside the window, and then stamps lastFire[K] with now; and
\* no call changes the last-fire timestamp of another kind.
C9_CooldownGating ==
    [][(ev'.op = "execute")
       => LET K == ev'.arg
              inside == now - LastFire(cooldown, K) < CooldownOf(K)
          IN  /\ inside => /\ ~ev'.ok
                           /\ state' = state
                           /\ activeIndex' = activeIndex
                           /\ timers' = timers
                           /\ cooldown' = cooldown
              /\ ~inside => /\ ev'.ok
                            /\ LastFire(cooldown', K) = now
              /\ \A J \in ExecuteKinds \ {K} :
                    LastFire(cooldown', J) = LastFire(cooldown, J)]_vars

\* C9 case: an execute action called inside its own cooldown window, after it
\* had fired, was rejected.
C9_Witness ==
    /\ ev.op = "execute" /\ ~ev.ok
    /\ LastFire(cooldown, ev.arg) > 0
    /\ now - LastFire(cooldown, ev.arg) < CooldownOf(ev.arg)

----------------------------------------------------------------------------
(* The gesture pipeline on a moving hand that shows no pose: detection is    *)
(* started and any number of animation frames arrive within each half second *)
(* of the clock.                                                             *)

SwipeTick == SWIPE_COOLDOWN

\* The frames of a pose-less hand with its wrist at one of four abscissae and
\* two ordinates.
SwipeFrames ==
    {Frame(TRUE, FALSE, Null, 0, wx, wy, NoElement) :
        wx \in {100, 300, 450, 500}, wy \in {50, 900}}

NextSwipe ==
    \/ Tick(SwipeTick, Epoch + MaxSwipeTicks * SwipeTick)
    \/ \E f \in SwipeFrames : StartDetection(f)
    \/ \E f \in SwipeFrames : ProcessFrame(f)

SpecSwipe == Init /\ [][NextSwipe]_vars

----------------------------------------------------------------------------
(* Claims about the swipe tracker *)

\* C10: swipe hysteresis asymmetry.  While 'left' is the remembered direction
\* (not cleared by stillness on this frame), the tracker is anchored within
\* SWIPE_TIME_LIMIT and the swipe cooldown has passed, a frame whose wrist has
\* moved towards 'right' (deltaX < 0) by more than the base threshold (0.15)
\* but not more than the reverse threshold (0.35) triggers no swipe, and one
\* that has moved by more than the reverse threshold, not mostly vertically,
\* triggers the swipe 'right'.
C10_HysteresisAsymmetry ==
    [][(/\ ev'.op = "frame"
        /\ ev'.wx # NoCoord
        /\ ~gridView
        /\ swipe.lastSwipeDirection = "left"
        /\ swipe.swipeStartX # NoCoord
        /\ now - cooldown.lastSwipeTime >= SWIPE_COOLDOWN
        /\ now - swipe.swipeStartTime <= SWIPE_TIME_LIMIT
        /\ ~(/\ Abs(ev'.wx - swipe.zeroVelocityLastX) < STABLE_VELOCITY
             /\ swipe.stableFrameCount + 1 > STABLE_FRAMES))
       => LET deltaX == ev'.wx - swipe.swipeStartX
              deltaY == ev'.wy - swipe.swipeStartY
          IN  /\ (/\ deltaX < 0
                  /\ Abs(deltaX) > SWIPE_BASE_THRESHOLD
                  /\ Abs(deltaX) <= SWIPE_REVERSE_THRESHOLD)
                    => /\ ev'.swipeDir = Null
                       /\ swipe'.lastSwipeDirection = "left"
                       /\ activeIndex' = activeIndex
              /\ (/\ deltaX < 0
                  /\ Abs(deltaX) > SWIPE_REVERSE_THRESHOLD
                  /\ Abs(deltaY) <= 2 * Abs(deltaX))
                    => /\ ev'.swipeDir = "right"
                       /\ swipe'.lastSwipeDirection = "right"]_vars

\* C10 case: with 'left' remembered, a frame moved the wrist towards 'right'
\* by more than the base threshold and no swipe was triggered.
C10_Witness ==
    /\ ev.op = "frame" /\ ev.lastDir = "left" /\ ev.swipeDir = Null
    /\ swipe.lastSwipeDirection = "left"
    /\ swipe.swipeStartX # NoCoord
    /\ swipe.swipeStartX - ev.wx > SWIPE_BASE_THRESHOLD

\* C11: base-threshold swipe.  With no remembered direction, or with the
\* remembered direction equal to the candidate's (and not cleared by stillness
\* on this frame), outside the swipe cooldown and with the anchor within
\* SWIPE_TIME_LIMIT, a frame whose wrist is more than the base threshold (0.15)
\* away from the anchor horizontally, and not predominantly vertically,
\* triggers a swipe: 'left' for positive deltaX, 'right' for negative, and
\* that direction becomes lastSwipeDirection.
C11_BaseThresholdSwipe ==
    [][(/\ ev'.op = "frame"
        /\ ev'.wx # NoCoord
        /\ ~gridView
        /\ swipe.swipeStartX # NoCoord
        /\ now - cooldown.lastSwipeTime >= SWIPE_COOLDOWN
        /\ now - swipe.swipeStartTime <= SWIPE_TIME_LIMIT
        /\ ~(/\ swipe.lastSwipeDirection # Null
             /\ Abs(ev'.wx - swipe.zeroVelocityLastX) < STABLE_VELOCITY
             /\ swipe.stableFrameCount + 1 > STABLE_FRAMES))
       => LET deltaX == ev'.wx - swipe.swipeStartX
              deltaY == ev'.wy - swipe.swipeStartY
              dir == IF deltaX > 0 THEN "left" ELSE "right"
          IN  (/\ swipe.lastSwipeDirection \in {Null, dir}
               /\ Abs(deltaX) > SWIPE_BASE_THRESHOLD
               /\ Abs(deltaY) <= 2 * Abs(deltaX))
                 => /\ ev'.swipeDir = dir
                    /\ swipe'.lastSwipeDirection = dir]_vars

\* C11 case: with no direction remembered, a displacement above the base
\* threshold and not above the reverse threshold triggered a swipe 'left'.
C11_Witness ==
    /\ ev.op = "frame" /\ ev.lastDir = Null /\ ev.swipeDir = "left"
    /\ swipe.lastSwipeDirection = "left"
    /\ swipe.zeroVelocityLastX = ev.wx
    /\ ev.wx <= SWIPE_REVERSE_THRESHOLD

----------------------------------------------------------------------------
(* The gesture pipeline started and stopped: frames a second apart, the      *)
(* detection or the camera stopped at any time, and a caller that takes the  *)
(* action lock for 'gesture'.                                                *)

NextStop ==
    \/ Tick(DwellTick, Epoch + MaxStopTicks * DwellTick)
    \/ \E f \in DwellFrames : StartDetection(f)
    \/ \E f \in DwellFrames : ev.op # "frame" /\ ProcessFrame(f)
    \/ StopDetection
    \/ StopCamera
    \/ AcquireCall("gesture")

SpecStop == Init /\ [][NextStop]_vars

----------------------------------------------------------------------------
(* Claims about cancellation *)

\* C12: cancellation.  Right after stopDetection or stopCamera the stabilizer
\* is clear (no pending pose, start 0, progress 0), the swipe tracker is clear
\* (no anchor, no remembered direction, no stable frames) and the action lock
\* is not held by 'gesture'.
C12_StopClearsState ==
    (ev.op = "stop")
        => /\ hold.pendingGesture = Null
           /\ hold.pendingGestureStart = 0
           /\ hold.lastPendingProgress = 0
           /\ swipe.swipeStartX = NoCoord
           /\ swipe.lastSwipeDirection = Null
           /\ swipe.stableFrameCount = 0
           /\ ~(actionLock.isLocked /\ actionLock.lockedBy = "gesture")

----------------------------------------------------------------------------
(* Shopping: voice commands bring the store to its modes and carts, and the  *)
(* execute actions are called on what the cursor points at; the deferred     *)
(* purchase clean-up runs when due.                                          *)

ShopCommands ==
    {Cmd(n, NoProduct) : n \in {"siguiente", "agregar al carrito", "ver carrito",
                                "ver detalles", "finalizar compra"}}

\* What the cursor can point at: nothing, the card of the second product, the
\* add button of the first product, the back button.
ShopElements ==
    {NoElement, Element("product-card", Products[Len(Products)]),
     Element("btn-add-cart", Products[1]), Element("btn-back", NoProduct)}

\* The calls of the execute actions: the swipe takes a direction, confirm,
\* remove and the double add take the element under the cursor.
ShopCalls ==
    {<<"swipe", NoElement, d>> : d \in {"left", "right"}}
    \cup {<<k, el, "left">> : k \in {"confirm", "remove", "italian"}, el \in ShopElements}
    \cup {<<k, NoElement, "left">> : k \in {"stop", "victory", "fist"}}

\* The clock only moves when a clean-up runs, CHECKOUT_DELAY after its order.
ShopLimit == Epoch + MaxShopTimers * CHECKOUT_DELAY

NextShop ==
    \/ \E c \in ShopCommands : VoiceCommand(c, FALSE)
    \/ \E c \in ShopCalls :
          /\ c[1] \in FiredKinds(cooldown) \/ Cardinality(FiredKinds(cooldown)) < MaxShopKinds
          /\ ExecuteCall(c[1], c[2], c[3])
    \/ \E tm \in timers : FireTimer(tm, ShopLimit)

SpecShop == Init /\ [][NextShop]_vars

\* The browser runs a setTimeout callback once its delay has passed.
SpecShopFair ==
    SpecShop /\ WF_vars(\E tm \in timers : FireTimer(tm, ShopLimit))

----------------------------------------------------------------------------
(* Claims about the gesture dispatcher *)

\* C13: add on confirm.  In BROWSE mode with a focused product P, a confirm
\* action that fires leaves the cart with exactly one entry for P, of quantity
\* 1 if P was not in the cart and its previous quantity plus 1 otherwise, and
\* leaves every other entry as it was, whatever the cursor points at.
C13_AddOnConfirm ==
    [][(/\ ev'.op = "execute" /\ ev'.arg = "confirm" /\ ev'.ok
        /\ state.currentMode = BROWSE
        /\ getActiveProduct(activeIndex) # NoProduct)
       => LET P == getActiveProduct(activeIndex)
              old == state.cart
              new == state'.cart
          IN  /\ Cardinality({i \in 1..Len(new) : new[i].id = P}) = 1
              /\ QtyOf(new, P) = IF InCart(old, P) THEN QtyOf(old, P) + 1 ELSE 1
              /\ Len(new) = IF InCart(old, P) THEN Len(old) ELSE Len(old) + 1
              /\ \A i \in 1..Len(old) : old[i].id # P => new[i] = old[i]]_vars

\* C13 case: a confirm in BROWSE raised the focused product's quantity to 2
\* in a cart that holds another product as well.
C13_Witness ==
    /\ ev.op = "execute" /\ ev.arg = "confirm" /\ ev.ok
    /\ state.currentMode = BROWSE
    /\ Len(state.cart) = 2
    /\ InCart(state.cart, getActiveProduct(activeIndex))
    /\ QtyOf(state.cart, getActiveProduct(activeIndex)) = 2

\* C14: remove at quantity 1.  In CART mode a remove action that fires on an
\* active item of quantity 1 deletes that entry (no entry of quantity 0
\* remains, the other entries keep their order and quantity) and leaves
\* cartActiveIndex a valid index of the new cart, 0 when the cart becomes
\* empty; on an active item of quantity above 1 it only lowers that quantity
\* by 1.
C14_RemoveAtQuantityOne ==
    [][(/\ ev'.op = "execute" /\ ev'.arg = "remove" /\ ev'.ok
        /\ state.currentMode = CART
        /\ ActiveCartItem(state) # NoProduct)
       => LET P == ActiveCartItem(state)
              old == state.cart
              new == state'.cart
          IN  /\ QtyOf(old, P) = 1
                    => /\ new = SelectSeq(old, LAMBDA it : it.id # P)
                       /\ Len(new) = Len(old) - 1
                       /\ \A i \in 1..Len(new) : new[i].cartQty >= 1
                       /\ state'.cartActiveIndex >= 0
                       /\ state'.cartActiveIndex <= Max(0, Len(new) - 1)
              /\ QtyOf(old, P) > 1
                    => /\ Len(new) = Len(old)
                       /\ QtyOf(new, P) = QtyOf(old, P) - 1
                       /\ \A i \in 1..Len(old) : old[i].id # P => new[i] = old[i]
                       /\ state'.cartActiveIndex = state.cartActiveIndex
              /\ state'.currentMode = CART]_vars

\* C14 case: a remove in CART deleted one of two entries and the active index
\* is 0, the only valid index left.
C14_Witness ==
    /\ ev.op = "execute" /\ ev.arg = "remove" /\ ev.ok
    /\ state.currentMode = CART
    /\ ev.cartLen = 2 /\ Len(state.cart) = 1
    /\ state.cartActiveIndex = 0

\* C15: empty-cart checkout guard.  In CART mode with an empty cart a Victory
\* action that fires leaves the mode CART and the store, the focus and the
\* pending timers as they were: it only gives feedback.
C15_EmptyCartGuard ==
    [][(/\ ev'.op = "execute" /\ ev'.arg = "victory" /\ ev'.ok
        /\ state.currentMode = CART
        /\ Len(state.cart) = 0)
       => /\ state'.currentMode = CART
          /\ state' = state
          /\ activeIndex' = activeIndex
          /\ timers' = timers]_vars

\* C15 case: a Victory action fired in CART on an empty cart.
C15_Witness ==
    /\ ev.op = "execute" /\ ev.arg = "victory" /\ ev.ok
    /\ ev.cartLen = 0 /\ Len(state.cart) = 0
    /\ state.currentMode = CART /\ state.previousMode = BROWSE

\* C16: purchase finalization.  Once a Victory action has fired in CHECKOUT
\* (its clean-up is pending, due within the explored time), the store
\* eventually has an empty cart and the mode BROWSE, whatever voice commands
\* and execute actions come in between.
C16_PurchaseFinalization ==
    (\E tm \in timers : tm.origin = "gesture" /\ tm.due <= ShopLimit)
        ~> (state.cart = <<>> /\ state.currentMode = BROWSE)

\* C16 case: the clean-up ordered by a Victory action in CHECKOUT has run and
\* left an empty cart in BROWSE.
C16_Witness ==
    /\ ev.op = "timer" /\ ev.source = "gesture"
    /\ state.cart = <<>> /\ state.currentMode = BROWSE
    /\ state.previousMode \in {CHECKOUT, CART, DETAILS}

\* C17: stop/back mapping.  An Open_Palm action that fires sets the mode to
\* CART from DETAILS exactly when DETAILS was entered from CART
\* (previousMode = CART) and to BROWSE from DETAILS otherwise, to BROWSE from
\* CART and to CART from CHECKOUT, and changes nothing in BROWSE; it never
\* modifies the cart.
C17_StopBackMapping ==
    [][(ev'.op = "execute" /\ ev'.arg = "stop" /\ ev'.ok)
       => /\ state.currentMode = DETAILS
                => state'.currentMode = IF state.previousMode = CART THEN CART ELSE BROWSE
          /\ state.currentMode = CART => state'.currentMode = BROWSE
          /\ state.currentMode = CHECKOUT => state'.currentMode = CART
          /\ state.currentMode = BROWSE => state' = state
          /\ state'.cart = state.cart
          /\ state'.cartActiveIndex = state.cartActiveIndex]_vars

\* C17 case: an Open_Palm action went back from DETAILS to the CART it had
\* been entered from, the cart still holding its entries.
C17_Witness ==
    /\ ev.op = "execute" /\ ev.arg = "stop" /\ ev.ok
    /\ state.currentMode = CART /\ state.previousMode = DETAILS
    /\ Len(state.cart) > 0

\* C18: remove outside CART.  A Thumb_Down action that fires in BROWSE or
\* DETAILS leaves the cart and the mode unchanged, whatever element is under
\* the cursor.
C18_RemoveNoOpOutsideCart ==
    [][(ev'.op = "execute" /\ ev'.arg = "remove" /\ ev'.ok
            /\ state.currentMode \in {BROWSE, DETAILS})
       => /\ state'.cart = state.cart
          /\ state'.currentMode = state.currentMode]_vars

\* C19: CHECKOUT is inert.  A confirm, remove, italian, closed-fist or swipe
\* action that fires in CHECKOUT leaves the mode, the cart, cartActiveIndex
\* and selectedProduct unchanged, whatever element is under the cursor.
C19_CheckoutInert ==
    [][(ev'.op = "execute" /\ ev'.ok
            /\ ev'.arg \in {"confirm", "remove", "italian", "fist", "swipe"}
            /\ state.currentMode = CHECKOUT)
       => /\ state'.currentMode = state.currentMode
          /\ state'.cart = state.cart
          /\ state'.cartActiveIndex = state.cartActiveIndex
          /\ state'.selectedProduct = state.selectedProduct]_vars

----------------------------------------------------------------------------
(* The coverflow under changing filters: the list it shows shrinks to any    *)
(* part of the catalog, the arrow keys and the swipe action move the focus.  *)

CatalogCommands == {Cmd("ver carrito", NoProduct), Cmd("ver productos", NoProduct)}

NextCatalog ==
    \/ Tick(SWIPE_COOLDOWN, Epoch + MaxCatalogTicks * SWIPE_COOLDOWN)
    \/ \E keep \in SUBSET (1..NumProducts) : UpdateCoverflow(keep)
    \/ \E key \in {"ArrowLeft", "ArrowRight"} : CoverflowKey(key)
    \/ \E d \in {"left", "right"} : ExecuteCall("swipe", NoElement, d)
    \/ \E c \in CatalogCommands : VoiceCommand(c, FALSE)

SpecCatalog == Init /\ [][NextCatalog]_vars

----------------------------------------------------------------------------
(* Claims about the catalog bounds *)

\* C20: catalog bounds.  next() called with the focus already on the last
\* product (or on an empty list) returns false and leaves activeIndex and the
\* product list unchanged, and so does prev() with the focus on the first;
\* a swipe action that fires in BROWSE at such a bound changes neither and
\* signals the limit.  This holds for lists of every length from 0 up.
C20_CatalogBounds ==
    [][/\ (ev'.op = "key" /\ ev'.ran
              /\ \/ ev'.arg = "ArrowRight" /\ activeIndex >= Len(products) - 1
                 \/ ev'.arg = "ArrowLeft" /\ activeIndex = 0)
          => ~ev'.ok /\ activeIndex' = activeIndex /\ products' = products
       /\ (ev'.op = "execute" /\ ev'.arg = "swipe" /\ ev'.ok
              /\ state.currentMode = BROWSE
              /\ \/ ev'.swipeDir = "left" /\ activeIndex >= Len(products) - 1
                 \/ ev'.swipeDir = "right" /\ activeIndex = 0)
          => ev'.limit /\ activeIndex' = activeIndex /\ products' = products
                /\ state' = state]_vars

\* C20 case: a swipe to the left fired in BROWSE on a list of one product and
\* hit the limit.
C20_Witness ==
    /\ ev.op = "execute" /\ ev.arg = "swipe" /\ ev.ok /\ ev.swipeDir = "left"
    /\ ev.limit
    /\ state.currentMode = BROWSE
    /\ Len(products) = 1 /\ activeIndex = 0

----------------------------------------------------------------------------
(* Claims about the cart bounds and the empty cart *)

\* C21: cart bounds.  A swipe action that fires in CART with cartActiveIndex
\* already on the last entry (swipe left) or the first (swipe right), or with
\* an empty cart, leaves the store unchanged and shows the limit feedback
\* rather than that of a successful navigation.
C21_CartBounds ==
    [][(ev'.op = "execute" /\ ev'.arg = "swipe" /\ ev'.ok
            /\ state.currentMode = CART
            /\ \/ ev'.swipeDir = "left"
                     /\ state.cartActiveIndex >= Len(state.cart) - 1
               \/ ev'.swipeDir = "right" /\ state.cartActiveIndex <= 0)
       => /\ state' = state
          /\ ev'.feedback = "LIMITE ALCANZADO"]_vars

\* C22: empty-cart policy.  A confirm, remove or italian action that fires in
\* CART with an empty cart leaves the whole store unchanged (cart, mode and
\* cartActiveIndex included), orders no clean-up and shows the empty-cart
\* feedback.
C22_EmptyCartPolicy ==
    [][(ev'.op = "execute" /\ ev'.ok
            /\ ev'.arg \in {"confirm", "remove", "italian"}
            /\ state.currentMode = CART /\ state.cart = <<>>)
       => /\ state' = state
          /\ timers' = timers
          /\ ev'.feedback = "Carrito Vacio"]_vars

\* C22 case: an italian action fired in CART on an empty cart and answered
\* with the empty-cart feedback.
C22_Witness ==
    /\ ev.op = "execute" /\ ev.arg = "italian" /\ ev.ok
    /\ ev.cartLen = 0 /\ ev.feedback = "Carrito Vacio"
    /\ state.currentMode = CART /\ state.cart = <<>>

----------------------------------------------------------------------------
(* Claims about the next-step action *)

\* The store and the clean-up order left by the Victory action called in the
\* current state with its cooldown over.
NextStepByGesture ==
    LET r == executeVictoryAction(World(state, activeIndex, InitialCooldown, {}), now)
    IN  [mode |-> r.state.currentMode, cart |-> r.state.cart, finalize |-> r.timers # {}]

\* The same for the handler of the voice command 'finalizar compra'.
NextStepByVoice ==
    LET r == voiceExecute(Cmd("finalizar compra", NoProduct), state, activeIndex, gridView)
    IN  [mode |-> r.state.currentMode, cart |-> r.state.cart, finalize |-> r.finalize]

\* C23: source independence of next-step.  In every state of the store the
\* Victory action and the voice command 'finalizar compra' leave the same
\* mode and the same cart, and order the purchase clean-up alike.
C23_NextStepSourceIndependent == NextStepByGesture = NextStepByVoice

----------------------------------------------------------------------------
(* detectItalianGesture on its own: one hand is drawn, then checked.  The    *)
(* wrist is fixed; the middle knuckle gives hand sizes of 0, 3, 4 and a     *)
(* little over 4; each fingertip is near the top, beside it, below the       *)
(* wrist, far to the side or close to the wrist.                             *)

ItalianTips == {Point(4, 5), Point(5, 5), Point(4, 4), Point(4, 13), Point(8, 5), Point(4, 9)}

ItalianHands ==
    {Landmarks(Point(4, 12), k, k, t[1], t[2], t[3], t[4], t[5]) :
        k \in {Point(4, 8), Point(4, 9), Point(5, 8), Point(4, 12)},
        t \in ItalianTips \X ItalianTips \X ItalianTips \X ItalianTips \X ItalianTips}

InitItalian ==
    /\ now = Epoch
    /\ actionLock = FreeLock
    /\ state = InitialState
    /\ activeIndex = 0
    /\ products = Products
    /\ gridView = FALSE
    /\ isRunning = FALSE
    /\ hold = IdleHold
    /\ cooldown = InitialCooldown
    /\ swipe = InitialSwipe
    /\ timers = {}
    /\ grants = {}
    /\ run = NoRun
    /\ demo = InitialDemo
    /\ \E lm \in ItalianHands : ev = [NoEv EXCEPT !.op = "landmarks", !.lm = lm]

NextItalian == DetectItalianCall

SpecItalian == InitItalian /\ [][NextItalian]_vars

----------------------------------------------------------------------------
(* Claims about the manual checks *)

\* C24: Italian gesture guards.  detectItalianGesture returns true only for a
\* hand whose wrist is not above any of the five fingertips, whose fingertip
\* centroid is within 0.8 hand sizes of the wrist horizontally, whose every
\* fingertip is within 0.25 hand sizes of the centroid, and whose centroid is
\* at least 1.5 hand sizes away from the wrist.
C24_ItalianGuards ==
    (ev.op = "detectItalian" /\ ev.ok)
        => LET lm == ev.lm
               hs2 == Dist2(lm.WRIST, lm.MIDDLE_MCP)
               c5 == Centroid5(lm)
           IN  /\ \A tip \in Tips(lm) : lm.WRIST.y >= tip.y
               /\ (c5.x - 5 * lm.WRIST.x) * (c5.x - 5 * lm.WRIST.x) <= 16 * hs2
               /\ \A tip \in Tips(lm) : 16 * Dist2(Times5(tip), c5) <= 25 * hs2
               /\ 4 * Dist2(c5, Times5(lm.WRIST)) >= 225 * hs2

\* C24 case: the check accepted a hand whose fingertips are not all on one
\* point.
C24_Witness ==
    /\ ev.op = "detectItalian" /\ ev.ok
    /\ Cardinality(Tips(ev.lm)) > 1

----------------------------------------------------------------------------
(* The gesture pipeline on whole hands: a hand at the left or at the right   *)
(* of the frame, closed on its fingertips, pointing with the index or open,  *)
(* with any of a few answers of the model.                                   *)

\* The hand with its wrist at column x: "italian" has the five fingertips on
\* one point far above the wrist, "pointing" the index stretched and the
\* other fingers folded, "open" the five fingers fanned out.
Hand(shape, x) ==
    CASE shape = "italian" ->
            Landmarks(Point(x, 12), Point(x, 8), Point(x, 8), Point(x, 5), Point(x, 5),
                      Point(x, 5), Point(x, 5), Point(x, 5))
      [] shape = "pointing" ->
            Landmarks(Point(x, 12), Point(x, 8), Point(x, 8), Point(x + 1, 10), Point(x, 4),
                      Point(x, 9), Point(x, 9), Point(x, 9))
      [] OTHER ->
            Landmarks(Point(x, 12), Point(x - 1, 8), Point(x, 8), Point(x - 3, 8),
                      Point(x - 1, 4), Point(x, 3), Point(x + 1, 4), Point(x + 2, 5))

\* The model's answers: none, an accepted label above, at and below the score
\* threshold, and a label processFrame does not accept.
ModelAnswers ==
    {<<Null, 0>>, <<"Thumb_Up", 80>>, <<"Thumb_Up", 50>>, <<"Victory", 40>>,
     <<"Pointing_Up", 80>>}

HandFrames ==
    {HandFrame(Hand(shape, x), a[1], a[2], NoElement) :
        shape \in {"italian", "pointing", "open"}, x \in {4, 12}, a \in ModelAnswers}

NextHand ==
    \/ Tick(SWIPE_COOLDOWN, Epoch + MaxHandTicks * SWIPE_COOLDOWN)
    \/ \E f \in HandFrames : StartDetection(f)
    \/ \E f \in HandFrames : ProcessFrame(f)

SpecHand == Init /\ [][NextHand]_vars

----------------------------------------------------------------------------
(* Claims about the candidates and the swipe precondition *)

\* C25: pointing precondition.  A frame triggers a swipe only if its hand is
\* in the pointing pose.
C25_SwipeOnlyWhenPointing ==
    (ev.op = "frame" /\ ev.swipeDir # Null) => isPointingPose(ev.lm)

\* C26: candidate precedence.  The candidate of a frame with a hand is Italian
\* when the manual check passes, whatever the model answers; otherwise it is
\* the model's top label if that scores above 0.5 and is one of Thumb_Up,
\* Thumb_Down, Open_Palm, Victory and Closed_Fist; otherwise there is none.
C26_CandidatePrecedence ==
    (ev.op = "frame")
        => ev.cand = IF detectItalianGesture(ev.lm) THEN "Italian"
                     ELSE IF ev.score > 50
                             /\ ev.label \in {"Thumb_Up", "Thumb_Down", "Open_Palm",
                                              "Victory", "Closed_Fist"}
                     THEN ev.label
                     ELSE Null

\* C26 case: the manual check passed on a frame for which the model answered
\* Thumb_Up with a score above the threshold, and the candidate is Italian.
C26_Witness ==
    /\ ev.op = "frame" /\ ev.cand = "Italian"
    /\ detectItalianGesture(ev.lm)
    /\ ev.label = "Thumb_Up" /\ ev.score > 50

----------------------------------------------------------------------------
(* Claims about the coverflow focus *)

\* C27: focus persistence.  When updateHorizontalCoverflow replaces the list,
\* the product in focus stays in focus if the new list holds it, and the
\* focus goes to index 0 otherwise; afterwards activeIndex is a valid index
\* whenever the list is not empty.
C27_FocusPersistence ==
    [][(ev'.op = "update")
       => LET focused == getActiveProduct(activeIndex)
              kept == focused # NoProduct
                        /\ \E i \in 1..Len(products') : products'[i] = focused
          IN  /\ kept => products'[activeIndex' + 1] = focused
              /\ ~kept => activeIndex' = 0
              /\ Len(products') > 0
                    => activeIndex' >= 0 /\ activeIndex' < Len(products')]_vars

\* C27 case: the focus was on the last product of the whole catalog and a
\* filter left that product alone in the list, now at index 0.
C27_Witness ==
    /\ ev.op = "update" /\ ev.focus = Products[Len(Products)]
    /\ products = <<Products[Len(Products)]>>
    /\ activeIndex = 0

----------------------------------------------------------------------------
(* Claims about the boundary and the denials of acquireActionLock *)

\* C28: timeout boundary of acquire.  On a held lock acquireActionLock denies
\* exactly when less than LOCK_TIMEOUT has elapsed since the acquisition, and
\* force-clears and grants exactly when LOCK_TIMEOUT or more has elapsed: a
\* call made exactly 300 ms after the acquisition is granted.
C28_TimeoutBoundary ==
    [][(ev'.op = "acquire" /\ actionLock.isLocked)
       => /\ ev'.ok <=> now - actionLock.lockTime >= LOCK_TIMEOUT
          /\ ev'.ok => actionLock' = HeldLock(ev'.source, now)
          /\ ~ev'.ok => actionLock' = actionLock]_vars

\* C29: denial only by the other source.  acquireActionLock(source) returns
\* false only when the lock is held by the other source and has not expired;
\* the source that holds the lock is never denied.
C29_DenialOnlyByOther ==
    [][(ev'.op = "acquire" /\ ~ev'.ok)
       => /\ actionLock.isLocked
          /\ actionLock.lockedBy # ev'.source
          /\ now - actionLock.lockTime <= LOCK_TIMEOUT]_vars

----------------------------------------------------------------------------
(* Claims about the re-arm of the stabilizer *)

\* C30: re-arm after confirmation.  The frame that confirms a pose k triggers
\* the action mapped to k and leaves the stabilizer pending on k with its
\* start pushed to now + 1000; on the following frames with candidate k the
\* stabilizer stays pending on k, and k is confirmed again only once
\* GESTURE_HOLD_DURATION has passed since that start, 3000 ms after the
\* confirmation.
C30_RearmAfterConfirmation ==
    [][(ev'.op = "frame")
       => /\ ev'.confirmed # Null
                => /\ ev'.fired \ {"swipe"} # {}
                   /\ hold'.pendingGesture = ev'.confirmed
                   /\ hold'.pendingGestureStart = now + REARM_DELAY
          /\ (hold.gestureJustSucceeded /\ hold.pendingGesture # Null
                  /\ ev'.cand = hold.pendingGesture)
                => /\ hold'.pendingGesture = ev'.cand
                   /\ ev'.confirmed # Null
                         => now >= hold.pendingGestureStart + GESTURE_HOLD_DURATION]_vars

----------------------------------------------------------------------------
(* The gesture pipeline with the grid view: frames a second apart, frames    *)
(* skipped while the video is not ready, the view switched between the       *)
(* coverflow and the grid, and the detection stopped and started again.      *)

MaxGridTicks == 2

\* The frames of a hand that shows a thumb up or an open palm, and the frame
\* without a hand.
GridFrames ==
    {Frame(TRUE, FALSE, "Thumb_Up", 80, 300, 500, NoElement),
     Frame(TRUE, FALSE, "Open_Palm", 80, 300, 500, NoElement),
     Frame(FALSE, FALSE, Null, 0, NoCoord, NoCoord, NoElement)}

NextGrid ==
    \/ Tick(DwellTick, Epoch + MaxGridTicks * DwellTick)
    \/ \E f \in GridFrames : StartDetection(f)
    \/ \E f \in GridFrames : ev.op # "frame" /\ ProcessFrame(f)
    \/ ev.op # "skip" /\ SkipFrame
    \/ StopDetection
    \/ SetViewType

SpecGrid == Init /\ [][NextGrid]_vars

\* C31: no early confirmation.  Whatever the sequence of processed frames,
\* skipped frames, grid-view frames and stopDetection/startDetection calls, a
\* frame dispatches the action of a pose k only if k has been the observed
\* candidate on every frame, with the detection loop running, for at least
\* GESTURE_HOLD_DURATION immediately before the dispatch.
C31_NoEarlyConfirmation ==
    [][(ev'.op = "frame" /\ ev'.confirmed # Null)
       => /\ isRunning
          /\ run.kind = ev'.confirmed
          /\ now - run.start >= GESTURE_HOLD_DURATION]_vars

\* C32: stabilizer invariant.  At the end of every processFrame invocation,
\* the grid-view, swipe-reset and no-hand branches included, no pending pose
\* means no progress: pendingGesture = null implies lastPendingProgress = 0.
C32_NoPendingNoProgress ==
    (ev.op = "frame")
        => (hold.pendingGesture = Null => hold.lastPendingProgress = 0)

----------------------------------------------------------------------------
(* Claims about the swipe tracker *)

\* C33: stillness unlock.  After a swipe, on the frames that detectSwipe
\* evaluates (the swipe cooldown has passed): a frame whose wrist has moved
\* less than 0.005 horizontally since the previous evaluated frame adds one to
\* the run of still frames, and the frame that completes the run (the count
\* exceeds STABLE_FRAMES) clears lastSwipeDirection, so that the next swipe
\* in either direction uses the base threshold; a frame that has moved 0.005
\* or more restarts the run from zero; the remembered direction is not
\* cleared before the run completes.
C33_StillnessUnlock ==
    [][(/\ ev'.op = "frame"
        /\ ev'.wx # NoCoord
        /\ ~gridView
        /\ swipe.lastSwipeDirection # Null
        /\ now - cooldown.lastSwipeTime >= SWIPE_COOLDOWN)
       => LET still == Abs(ev'.wx - swipe.zeroVelocityLastX) < STABLE_VELOCITY
          IN  /\ (still /\ swipe.stableFrameCount >= STABLE_FRAMES)
                    => /\ swipe'.lastSwipeDirection = Null
                       /\ swipe'.stableFrameCount = 0
                       /\ \A d \in {"left", "right"} :
                             SwipeThreshold(swipe'.lastSwipeDirection, d)
                                 = SWIPE_BASE_THRESHOLD
              /\ (still /\ swipe.stableFrameCount < STABLE_FRAMES /\ ev'.swipeDir = Null)
                    => /\ swipe'.lastSwipeDirection = swipe.lastSwipeDirection
                       /\ swipe'.stableFrameCount = swipe.stableFrameCount + 1
              /\ ~still
                    => /\ swipe'.lastSwipeDirection # Null
                       /\ swipe'.stableFrameCount = 0]_vars

\* C33 case: a frame of a still hand has just completed the run and cleared
\* the remembered direction.
C33_Witness ==
    /\ ev.op = "frame" /\ ev.wx # NoCoord /\ ev.lastDir # Null
    /\ ev.swipeDir = Null
    /\ swipe.lastSwipeDirection = Null
    /\ swipe.swipeStartX = ev.wx

\* C34: vertical rejection.  On a frame that detectSwipe evaluates with an
\* anchor set within SWIPE_TIME_LIMIT (and no stillness unlock on this frame),
\* when |deltaX| exceeds the applicable threshold but |deltaY| > 2 * |deltaX|,
\* no swipe is returned, the anchor (position and time) becomes the current
\* wrist position and the current time, no swipe action is dispatched and
\* lastSwipeTime keeps its value.
C34_VerticalRejection ==
    [][(/\ ev'.op = "frame"
        /\ ev'.wx # NoCoord
        /\ ~gridView
        /\ swipe.swipeStartX # NoCoord
        /\ now - cooldown.lastSwipeTime >= SWIPE_COOLDOWN
        /\ now - swipe.swipeStartTime <= SWIPE_TIME_LIMIT
        /\ ~(/\ swipe.lastSwipeDirection # Null
             /\ Abs(ev'.wx - swipe.zeroVelocityLastX) < STABLE_VELOCITY
             /\ swipe.stableFrameCount + 1 > STABLE_FRAMES))
       => LET deltaX == ev'.wx - swipe.swipeStartX
              deltaY == ev'.wy - swipe.swipeStartY
              candidateDir == IF deltaX > 0 THEN "left" ELSE "right"
          IN  (/\ Abs(deltaX) > SwipeThreshold(swipe.lastSwipeDirection, candidateDir)
               /\ Abs(deltaY) > 2 * Abs(deltaX))
                 => /\ ev'.swipeDir = Null
                    /\ "swipe" \notin ev'.fired
                    /\ swipe'.swipeStartX = ev'.wx
                    /\ swipe'.swipeStartY = ev'.wy
                    /\ swipe'.swipeStartTime = now
                    /\ swipe'.lastSwipeDirection = swipe.lastSwipeDirection
                    /\ cooldown'.lastSwipeTime = cooldown.lastSwipeTime
                    /\ activeIndex' = activeIndex]_vars

\* C34 case: with 'left' remembered and an anchor set on an earlier tick, a
\* frame moved the wrist towards 'right' by more than the reverse threshold
\* and mostly vertically, and it was rejected: the anchor is the current wrist
\* and no swipe was triggered.
C34_Witness ==
    /\ ev.op = "frame" /\ ev.swipeDir = Null /\ ev.lastDir = "left"
    /\ ev.startX # NoCoord
    /\ ev.startX - ev.wx > SWIPE_REVERSE_THRESHOLD
    /\ Abs(ev.wy - ev.startY) > 2 * (ev.startX - ev.wx)
    /\ now - cooldown.lastSwipeTime >= SWIPE_COOLDOWN
    /\ now - cooldown.lastSwipeTime <= SWIPE_TIME_LIMIT
    /\ swipe.lastSwipeDirection = "left"
    /\ swipe.swipeStartX = ev.wx /\ swipe.swipeStartY = ev.wy
    /\ swipe.swipeStartTime = now

----------------------------------------------------------------------------
(* Claims about the cooldowns of the dwell-confirmed poses *)

\* C35: the cooldown never drops a dwell-confirmed pose.  Whenever a frame
\* confirms a pose after its hold, the cooldown check of the execute action
\* mapped to the pose passes: the time since that action last fired is not
\* below its cooldown, and the action fires on this frame.
C35_CooldownNeverDropsConfirmed ==
    [][(ev'.op = "frame" /\ ev'.confirmed # Null)
       => LET kind == CASE ev'.confirmed = "Italian" -> "italian"
                        [] ev'.confirmed = "Thumb_Up" -> "confirm"
                        [] ev'.confirmed = "Thumb_Down" -> "remove"
                        [] ev'.confirmed = "Open_Palm" -> "stop"
                        [] ev'.confirmed = "Victory" -> "victory"
                        [] OTHER -> "fist"
          IN  /\ ~InCooldown(now, LastFire(cooldown, kind), CooldownOf(kind))
              /\ kind \in ev'.fired
              /\ LastFire(cooldown', kind) = now]_vars

\* C35 case: a pose whose action had fired before has just been confirmed
\* again, and its action fired again.
C35_Witness ==
    /\ ev.op = "frame" /\ ev.confirmed = "Thumb_Up"
    /\ run.confirms >= 2
    /\ "confirm" \in ev.fired
    /\ cooldown.lastConfirmTime = now

----------------------------------------------------------------------------
(* Claims about the cart and the purchase *)

\* C36: checkout implies a non-empty cart.  In every reachable state, after
\* any sequence of gesture actions, voice commands and purchase clean-ups,
\* currentMode = CHECKOUT implies that the cart is not empty.
C36_CheckoutImpliesNonEmptyCart ==
    state.currentMode = CHECKOUT => state.cart # <<>>

\* C37: cancel wins over a pending finalization.  Once the stop action has
\* moved the store from CHECKOUT back to CART (feedback 'CANCELADO'), the
\* clean-up of a purchase finalized before it does not complete: when its
\* timer runs next, the cart is not emptied and the mode is not forced to
\* BROWSE.
C37_CancelWinsOverFinalization ==
    [][(/\ ev.op = "execute" /\ ev.arg = "stop" /\ ev.feedback = "CANCELADO"
        /\ state.currentMode = CART
        /\ ev'.op = "timer")
       => /\ state'.cart = state.cart
          /\ state'.currentMode = CART]_vars

\* C38: active cart index validity.  In every reachable state cartActiveIndex
\* is at least 0 and, whenever the cart is not empty, below the length of the
\* cart, so that in CART with a non-empty cart the active item exists.
C38_ActiveCartIndexValid ==
    /\ state.cartActiveIndex >= 0
    /\ state.cart # <<>> => state.cartActiveIndex < Len(state.cart)

----------------------------------------------------------------------------
(* The camera button: clicks at any time, also while an earlier click still  *)
(* waits for the camera and the model, and the detection loop once started.  *)

MaxAwaiting == 2
MaxDemoTicks == 1

InitOutcomes == {"ready", "failed", "threw"}

NextDemo ==
    \/ Tick(DwellTick, Epoch + MaxDemoTicks * DwellTick)
    \/ ClickStartDemo(MaxAwaiting)
    \/ \E o \in InitOutcomes, f \in GridFrames : InitSettled(o, f)
    \/ \E f \in GridFrames : ev.op # "frame" /\ ProcessFrame(f)

SpecDemo == Init /\ [][NextDemo]_vars

\* C40: toggle consistency.  For every interleaving of onStartDemo calls, a
\* second click while the first still waits for the initialisation included,
\* once all the calls have completed the detection loop is running only if
\* demoStarted is true: toggling the camera off never leaves it running.
C40_ToggleConsistency ==
    (demo.awaiting = 0 /\ isRunning) => demo.demoStarted

=============================================================================
